---------------------------- MODULE Spec2Model ----------------------------
(***************************************************************************)
(* A model of powerd++ (src/powerd++.cpp): discovery of the clock          *)
(* controlling cores, the cp_times ring buffer, the load computation, the  *)
(* adaptive / fixed frequency policy and the daemon life cycle, together   *)
(* with the pidfile protocol of run_daemon() for two competing instances.  *)
(*                                                                         *)
(* Kernel tunables (sysctl) are the environment: dev.cpu.N.freq is state   *)
(* (the daemon reads back what it wrote), kern.cp_times grows by a tick    *)
(* pattern chosen at every read, hw.acpi.acline is chosen at every read.   *)
(* assert() is active (no NDEBUG): a failing assertion aborts the process. *)
(***************************************************************************)
EXTENDS Integers, Sequences, FiniteSets, TLC

(***************************************************************************)
(* Bounds of the model.                                                    *)
(***************************************************************************)
MaxCpu == 2
MaxSamples == 3
MaxCycles == 2
MaxPhantom == 1

(***************************************************************************)
(* Program constants.                                                      *)
(***************************************************************************)
CPUSTATES == 5
CP_IDLE == 4
ADP == 640
HADP == 384

BATTERY == 0
ONLINE == 1
UNKNOWN == 2

OK == 0
ESYSCTL == 8
ENOFREQ == 9
ECONFLICT == 10
EPID == 11
EFORBIDDEN == 12
EDAEMON == 13

\* Exit status of a process killed by a failing assert() (SIGABRT).
ABORTED == 134

\* The exit code of a process that has not exited.
RUNNING == -1

\* Core::controller before discovery.
NOCTRL == -1

States == 0 .. (CPUSTATES - 1)

Min(a, b) == IF a < b THEN a ELSE b
Max(a, b) == IF a > b THEN a ELSE b

(***************************************************************************)
(* Command line: set_mode(), load() and freq() on parsed mode arguments.   *)
(* A mode argument is a predefined symbol, a percentage or a frequency     *)
(* with a unit.                                                            *)
(***************************************************************************)
\* load(): a percentage converted to the range [1, 1024].
load(pct) == IF (1024 * pct) \div 100 < 1 THEN 1 ELSE (1024 * pct) \div 100

\* freq(): a value with a unit converted to MHz.
freq(unit, value) ==
    CASE unit = "khz" -> value \div 1000
      [] unit = "mhz" -> value
      [] unit = "ghz" -> value * 1000

\* set_mode(): the pair (targets[line], target_freqs[line]) for one argument.
set_mode(mode) ==
    CASE mode.kind = "min"  -> [target |-> 0,    target_freq |-> 0]
      [] mode.kind = "max"  -> [target |-> 0,    target_freq |-> 1000000]
      [] mode.kind = "adp"  -> [target |-> ADP,  target_freq |-> 0]
      [] mode.kind = "hadp" -> [target |-> HADP, target_freq |-> 0]
      [] mode.kind = "pct"  -> [target |-> load(mode.value), target_freq |-> 0]
      [] OTHER              -> [target |-> 0,
                                target_freq |-> freq(mode.kind, mode.value)]

\* The command lines tried: per line state the mode argument, or "default"
\* for an option that was not given.
NoArg == [kind |-> "default", value |-> 0]
CommandLines ==
    { [b |-> NoArg, a |-> NoArg, n |-> NoArg],
      [b |-> [kind |-> "pct", value |-> 50], a |-> NoArg,
       n |-> [kind |-> "mhz", value |-> 800]],
      [b |-> [kind |-> "min", value |-> 0],
       a |-> [kind |-> "pct", value |-> 50],
       n |-> [kind |-> "max", value |-> 0]] }

\* The frequency limits tried (-m, -M), the first is the default.
LimitChoices ==
    { <<0, 1000000>>, <<600, 1000000>>, <<0, 800>>, <<800, 600>> }

\* The freq_levels tables tried, as the list of frequencies of the
\* "freq/power" pairs; not present if the sysctl does not exist.
LevelChoices ==
    { [present |-> FALSE, freqs |-> <<>>],
      [present |-> TRUE, freqs |-> <<1000, 750, 500>>],
      [present |-> TRUE, freqs |-> <<>>] }

\* The clock a controlling core runs at when the daemon starts.
InitFreqs == { 1000 }


(***************************************************************************)
(* State.                                                                  *)
(*   pc        position of the daemon in main() / run_daemon()             *)
(*   exitcode  the value main() returns, RUNNING until then                *)
(*   sys       the kernel: ncpu, which cores have dev.cpu.N.freq, the      *)
(*             freq_levels table, the clocks, the tick counters            *)
(*   g         the global struct g of powerd++.cpp                         *)
(*   lock      the pidfile: "free", "held" (locked, empty), "written"      *)
(*   obs       per controlling core what update_freq() did in the last     *)
(*             cycle: the status line values and the sysctl writes issued  *)
(*   cycles    number of update_freq() calls so far                        *)
(*   env       what the world around the daemon does in the run that is    *)
(*             explored: the workload of the machine ("any" or "idle"),    *)
(*             whether the power source changes, whether sysctl calls of   *)
(*             the main loop fail, and the number of cycles followed       *)
(***************************************************************************)
VARIABLES pc, exitcode, sys, g, lock, obs, cycles, env

\* The life cycle steps the process has completed, in order: "armed" (the
\* signal handlers are installed), "locked", "probed", "daemonized",
\* "pidwritten", "loop", "restored" and "released".
VARIABLE done

\* Exception::err of the exception a failed sysctl has raised: the errno
\* of the call, "0" while no sysctl has failed.
VARIABLE errno

\* The age of the snapshots in the cp_times ring buffer: the number of
\* sampling steps (calls of update_cp_times()) so far, per ring slot the
\* step that has stored its snapshot, 0 for a slot that is still
\* zero-initialised, and the step whose snapshot the last sampling step
\* has used as cp_times_old.
VARIABLE taken

(***************************************************************************)
(* State of the parts that are explored on their own.                      *)
(*   inst      two instances of the daemon competing for the pidfile: per  *)
(*             instance its position in run_daemon(), its process id, the  *)
(*             members err and otherpid of its Pidfile, and its exit code  *)
(*   pidfile   the pidfile: the instance holding its lock (0 for none)     *)
(*             and the process id written into it (-1 for none)            *)
(*   th        one application of temperature throttling: its inputs and   *)
(*             the resulting frequency                                     *)
(*   cyc       a timing::Cycle and its caller: the deadline clk, the       *)
(*             steady clock, and the call that is under way                *)
(*   opt       a nih::Options functor over one command line: argv, the     *)
(*             members argi, argp and current, and what its caller got     *)
(*   lp        libloadplay inside a hijacked process: the globals          *)
(*             sys_results and sysctl_startup, Main::die, the position of  *)
(*             Main and of the emulator thread, the load frames left in    *)
(*             the input, and the last intercepted sysctl() call           *)
(*   rbuf      the load ring buffers of the groups: the sample count, the  *)
(*             shared sample index, and per group the stored samples and   *)
(*             their rolling sum                                           *)
(*   fctl      an emulated dev.cpu.N.freq of libloadplay: its value, its   *)
(*             on-set callback handle and the write that is under way      *)
(*   fr        the emulator of libloadplay replaying load frames for one   *)
(*             core: the frame read, the carry, the clock and the          *)
(*             emulated kern.cp_times counters                             *)
(*   mtx       the threads of a hijacked process inside libloadplay: per   *)
(*             thread its position and the mutexes it holds, and the       *)
(*             emulated kern.cp_times the daemon thread has read           *)
(***************************************************************************)
VARIABLES inst, pidfile, th, cyc, opt, lp, rbuf, fctl, fr, mtx

daemon == <<pc, exitcode, sys, g, lock, obs, cycles, env, done, errno,
           taken>>
parts == <<inst, pidfile, th, cyc, opt, lp, rbuf, fctl, fr, mtx>>
vars == <<daemon, parts>>

\* The parts of libloadplay that are modelled on their own.
loadplay == <<fctl, fr, mtx>>

Cores == 0 .. (g.ncpu - 1)

\* The clock controlling cores (group leaders).
Controllers == { c \in Cores : g.cores[c].controller = c }

\* The members of the group led by c.
Group(c) == { m \in Cores : g.cores[m].controller = c }

RECURSIVE Sum(_, _)
Sum(times, n) == IF n = 0 THEN 0 ELSE times[n - 1] + Sum(times, n - 1)

(***************************************************************************)
(* Tick patterns: what kern.cp_times gained per core since the last read.  *)
(***************************************************************************)
Idle  == [s \in States |-> IF s = CP_IDLE THEN 2 ELSE 0]
Mixed == [s \in States |-> IF s \in {0, CP_IDLE} THEN 1 ELSE 0]
Busy  == [s \in States |-> IF s \in {2, 3} THEN 1 ELSE 0]
Halt  == [s \in States |-> 0]

\* Between two polls: every core does the same, or one core is busy
\* while the others are half idle.
TickPatterns(n) ==
    { [c \in 0 .. (n - 1) |-> k] : k \in {Idle, Mixed, Halt} } \cup
    { [c \in 0 .. (n - 1) |-> IF c = h THEN Busy ELSE Mixed] :
        h \in 0 .. (n - 1) }

\* Between two polls of an idle machine: only idle ticks, one core may
\* have been halted.
IdlePatterns(n) ==
    { [c \in 0 .. (n - 1) |-> IF c = h THEN k ELSE Idle] :
        h \in 0 .. (n - 1), k \in {Idle, Halt} }

\* Between the back to back reads of reset_cp_times().
ResetPatterns(n) ==
    { [c \in 0 .. (n - 1) |-> k] : k \in {Halt, Mixed} }

\* The counters of the kernel at boot plus the given gain.
Advance(times, gain) ==
    [c \in DOMAIN times |-> [s \in States |-> times[c][s] + gain[c][s]]]

(***************************************************************************)
(* init(): discovery.                                                      *)
(***************************************************************************)
\* A Core as constructed.
Core == [controller |-> NOCTRL, load |-> 0, min |-> 0, max |-> 100000]

\* A discovery that accepts a first core without dev.cpu.0.freq.
first_controls(hasfreq, ncpu, core, controller) ==
    [fail |-> FALSE, ctl |-> [c \in 1 .. ncpu |-> 0]]

\* A discovery that makes every core its own controller.
own_groups(hasfreq, ncpu, core, controller) ==
    [fail |-> ~hasfreq[0], ctl |-> [c \in 1 .. ncpu |-> c - 1]]

\* The loop over the cores that assigns Core::controller; fails if the
\* first core has no dev.cpu.0.freq.
RECURSIVE find_controllers(_, _, _, _)
find_controllers(hasfreq, ncpu, core, controller) ==
    IF core >= ncpu THEN [fail |-> FALSE, ctl |-> <<>>]
    ELSE IF ~hasfreq[core] /\ 0 > controller THEN [fail |-> TRUE, ctl |-> <<>>]
    ELSE LET c == IF hasfreq[core] THEN core ELSE controller
             rest == find_controllers(hasfreq, ncpu, core + 1, c)
         IN  [fail |-> rest.fail, ctl |-> <<c>> \o rest.ctl]

\* The loop over the "freq/power" pairs of a freq_levels string.
RECURSIVE scan_levels(_, _, _)
scan_levels(levels, min, max) ==
    IF levels = <<>> THEN [min |-> min, max |-> max]
    ELSE scan_levels(Tail(levels), Min(min, Head(levels)),
                     Max(max, Head(levels)))

\* The min/max of a controlling core; ok is the assertion min < max.
core_limits(levels, freq_min, freq_max) ==
    IF ~levels.present
    THEN [min |-> Core.min, max |-> Core.max, ok |-> TRUE]
    ELSE LET s  == scan_levels(levels.freqs, freq_max, freq_min)
             mx == Min(s.max, freq_max)
             mn == Max(s.min, freq_min)
         IN  [min |-> mn, max |-> mx, ok |-> mn < mx]

(***************************************************************************)
(* update_cp_times(), update_load_times(), update_acline().                *)
(***************************************************************************)
\* A reference slot that is the slot written before the current one.
prev_slot(sample, samples) == (sample + samples - 1) % samples

\* The ring slot holding the oldest sample once slot `sample` is written.
old_slot(sample, samples) == (sample + 1) % samples

\* A load that is the idle share of the ticks instead of the busy share.
idle_share(all, idle) ==
    IF all # 0 THEN (idle * 1024) \div all ELSE 0

\* An idle time that is the counter itself instead of its gain.
idle_total(cp_times, cp_times_old) == cp_times[CP_IDLE]

\* cptime_t idle = cp_times[CP_IDLE] - cp_times_old[CP_IDLE]
idle_delta(cp_times, cp_times_old) ==
    cp_times[CP_IDLE] - cp_times_old[CP_IDLE]

\* The load of a core in [0, 1024] from its tick deltas.
cp_load(all, idle) ==
    IF all # 0 THEN 1024 - ((idle * 1024) \div all) ELSE 0

\* The ages after update_cp_times() has stored a snapshot in slot
\* gg.sample and has used the slot old_slot() as cp_times_old.
sampled(t, gg) ==
    LET stamp == [t.stamp EXCEPT ![gg.sample] = t.steps + 1]
    IN  [steps |-> t.steps + 1, stamp |-> stamp,
         old |-> stamp[old_slot(gg.sample, gg.samples)]]

\* g after update_cp_times() has read the counters `kern`.
update_cp_times(gg, kern) ==
    LET base == gg.sample * gg.ncpu
        old  == old_slot(gg.sample, gg.samples) * gg.ncpu
        ring == [i \in DOMAIN gg.cp_times |->
                    IF i \in base .. (base + gg.ncpu - 1)
                    THEN kern[i - base] ELSE gg.cp_times[i]]
        ld(core) ==
            LET cp_times     == ring[base + core]
                cp_times_old == ring[old + core]
            IN  cp_load(Sum(cp_times, CPUSTATES) - Sum(cp_times_old, CPUSTATES),
                        idle_delta(cp_times, cp_times_old))
    IN  [gg EXCEPT !.cp_times = ring,
                   !.cores = [c \in DOMAIN gg.cores |->
                                 [gg.cores[c] EXCEPT !.load = ld(c)]],
                   !.sample = (gg.sample + 1) % gg.samples]

\* A merge that adds the loads up.
sum_load(controller_load, core_load) == controller_load + core_load

\* How a member's load is merged into its controller's load.
group_load(controller_load, core_load) == Max(controller_load, core_load)

\* The loop of update_load_times() from core corei on.
RECURSIVE load_loop(_, _)
load_loop(cores, corei) ==
    IF corei \notin DOMAIN cores THEN cores
    ELSE LET ctl == cores[corei].controller
         IN  IF ctl = corei THEN load_loop(cores, corei + 1)
             ELSE load_loop(
                     [cores EXCEPT ![ctl].load =
                         group_load(cores[ctl].load, cores[corei].load)],
                     corei + 1)

update_load_times(gg, kern) ==
    LET g1 == update_cp_times(gg, kern)
    IN  [g1 EXCEPT !.cores = load_loop(g1.cores, 0)]

\* g after update_acline(); `read` is the outcome of reading
\* hw.acpi.acline: its value, or not ok if the sysctl cannot be read.
\* An update that leaves the targets of the previous line state in place.
stale_targets(gg, read) ==
    [gg EXCEPT !.acline = IF ~read.ok THEN UNKNOWN ELSE read.value]

update_acline(gg, read) ==
    LET acline == IF ~read.ok THEN UNKNOWN ELSE read.value
    IN  [gg EXCEPT !.acline = acline,
                   !.target = gg.targets[acline],
                   !.target_freq = gg.target_freqs[acline]]

Online == [ok |-> TRUE, value |-> ONLINE]
AclineReads ==
    { [ok |-> TRUE, value |-> BATTERY], Online, [ok |-> FALSE, value |-> 0] }

\* What a tunable can return besides the three line states: a number no
\* state has, and the -1 of a power source without a status.  The value
\* is written as the int that static_cast<int>(g.acline) makes of it.
AclineTunable ==
    AclineReads \cup { [ok |-> TRUE, value |-> 3], [ok |-> TRUE, value |-> -1] }

\* What the memory around g.targets and g.target_freqs can hold.
NoJunk == [target |-> 0, target_freq |-> 0]
Junk == { NoJunk, [target |-> 384, target_freq |-> 2000],
          [target |-> 5000, target_freq |-> 0] }

\* update_acline() for every value of the tunable: an index outside of
\* g.targets and g.target_freqs reads what lies around the arrays.
index_acline(gg, read, junk) ==
    IF read.ok /\ read.value \notin DOMAIN gg.targets
    THEN [gg EXCEPT !.acline = read.value,
                    !.target = junk.target,
                    !.target_freq = junk.target_freq]
    ELSE update_acline(gg, read)

(***************************************************************************)
(* update_freq(): the policy.                                              *)
(***************************************************************************)
\* A wanted frequency that leaves the target load out.
unscaled_freq(oldfreq, ld, target, target_freq) ==
    IF target # 0 THEN (oldfreq * ld) \div 1024 ELSE target_freq

\* A wanted frequency that keeps the clock in the fixed modes.
keep_freq(oldfreq, ld, target, target_freq) ==
    IF target # 0 THEN (oldfreq * ld) \div target ELSE oldfreq

\* The frequency wanted for a group.
want_freq(oldfreq, ld, target, target_freq) ==
    IF target # 0 THEN (oldfreq * ld) \div target ELSE target_freq

\* Limits that are not applied.
no_limits(wantfreq, min, max) == wantfreq

\* apply limits
apply_limits(wantfreq, min, max) == Min(Max(wantfreq, min), max)

\* A guard that lets every cycle write.
always_write(oldfreq, newfreq) == TRUE

\* The guard of the sysctl_set() call.
need_write(oldfreq, newfreq) == oldfreq # newfreq

NoObs == [seen |-> FALSE, oldfreq |-> 0, wantfreq |-> 0, newfreq |-> 0,
          writes |-> 0, load |-> 0]

\* A sysctl of one controlling core that fails: core -1 means none does.
NoFault == [core |-> -1, kind |-> "none"]
Faults(n) ==
    { NoFault } \cup
    { [core |-> c, kind |-> k] : c \in 0 .. (n - 1),
                                 k \in {"read", "EPERM", "EINVAL"} }

\* The errno of the sysctl() that reads kern.cp_times into a buffer of
\* g.ncpu entries: the kernel has phantom entries more and reports ENOMEM
\* for a buffer that is too small; another failure is drawn as EINVAL.
tick_read(phantom, ok) ==
    IF phantom > 0 THEN "ENOMEM" ELSE IF ok THEN "0" ELSE "EINVAL"

\* The errno of a failing sysctl: that of the write, or the one a failing
\* read reports.
sysctl_errno(kind) == IF kind = "read" THEN "EINVAL" ELSE kind

\* sysctl_fail(): every errno of a failed sysctl, EPERM included, is
\* raised as ESYSCTL.
sysctl_fail(kind) == ESYSCTL

\* A catch block that passes every failure of the write on.
rethrow(kind) == ESYSCTL

\* The catch block around the sysctl_set() of update_freq().
write_fail(kind) == IF kind = "EPERM" THEN EFORBIDDEN ELSE sysctl_fail(kind)

\* The loop over the controlling cores from corei on; freqs are the clocks
\* dev.cpu.N.freq, ob the observations so far.
RECURSIVE freq_loop(_, _, _, _, _)
freq_loop(gg, corei, freqs, ob, fault) ==
    IF corei >= gg.ncpu THEN [status |-> OK, freq |-> freqs, obs |-> ob]
    ELSE IF gg.cores[corei].controller # corei
    THEN freq_loop(gg, corei + 1, freqs, ob, fault)
    ELSE IF fault.core = corei /\ fault.kind = "read"
    THEN [status |-> ESYSCTL, freq |-> freqs, obs |-> ob]
    ELSE
      LET core     == gg.cores[corei]
          oldfreq  == freqs[corei]
          wantfreq == want_freq(oldfreq, core.load, gg.target, gg.target_freq)
          newfreq  == apply_limits(wantfreq, core.min, core.max)
          wr       == need_write(oldfreq, newfreq)
          o        == [ob EXCEPT ![corei] =
                         [seen |-> TRUE, oldfreq |-> oldfreq,
                          wantfreq |-> wantfreq, newfreq |-> newfreq,
                          writes |-> ob[corei].writes + (IF wr THEN 1 ELSE 0),
                          load |-> core.load]]
      IN  IF gg.target # 0 /\ oldfreq >= 4194304
          THEN [status |-> ABORTED, freq |-> freqs, obs |-> ob]
          ELSE IF wr /\ fault.core = corei
          THEN [status |-> write_fail(fault.kind), freq |-> freqs, obs |-> o]
          ELSE freq_loop(gg, corei + 1,
                         IF wr THEN [freqs EXCEPT ![corei] = newfreq] ELSE freqs,
                         o, fault)

(***************************************************************************)
(* read_args(): g as main() has it when init() is called.                  *)
(***************************************************************************)
read_args(cmd, limits, samples, foreground) ==
    LET given(arg, def) == IF arg.kind = "default"
                           THEN [target |-> def, target_freq |-> 0]
                           ELSE set_mode(arg)
        m == [line \in {BATTERY, ONLINE, UNKNOWN} |->
                 CASE line = BATTERY -> given(cmd.b, ADP)
                   [] line = ONLINE  -> given(cmd.a, HADP)
                   [] OTHER          -> given(cmd.n, HADP)]
    IN  [signal |-> 0, samples |-> samples, sample |-> 0, ncpu |-> 0,
         freq_min |-> limits[1], freq_max |-> limits[2],
         targets |-> [line \in DOMAIN m |-> m[line].target],
         target_freqs |-> [line \in DOMAIN m |-> m[line].target_freq],
         target |-> HADP, target_freq |-> 0, acline |-> UNKNOWN,
         foreground |-> foreground, cp_times |-> <<>>, cores |-> <<>>]

\* The tick counters of a core when the daemon starts.
Boot == [s \in States |-> IF s = CP_IDLE THEN 9 ELSE s + 1]

\* A machine of n cores: h tells which cores have dev.cpu.N.freq, l is the
\* freq_levels table and f the clock of every core.
Machine(n, h, l, f) ==
    [ncpu |-> n, hasfreq |-> h, levels |-> l, acline |-> Online, phantom |-> 0,
     freq |-> [c \in 0 .. (n - 1) |-> f],
     cp_times |-> [c \in 0 .. (n - 1) |-> Boot]]

\* The configurations explored: a machine (cores, frequency handles,
\* sample count), the limits (freq_levels, -m, -M), the command line
\* (modes, -f, with a changing power source) and failing sysctl calls; at
\* most one of the four differs from the plain one.
PlainMachine(n, h, samples) == n = 1 /\ h[0] /\ samples = 2
PlainLimits(l, limits) ==
    l = [present |-> TRUE, freqs |-> <<1000, 750, 500>>] /\ limits = <<0, 1000000>>
PlainCommand(cmd, foreground, power) ==
    cmd = [b |-> NoArg, a |-> NoArg, n |-> NoArg] /\ ~foreground /\ power = "steady"

\* The parts explored on their own, at rest.
NoParts ==
    /\ inst = <<>>
    /\ pidfile = [holder |-> 0, pid |-> -1]
    /\ th = <<>>
    /\ cyc = <<>>
    /\ opt = <<>>
    /\ lp = <<>>
    /\ rbuf = <<>>
    /\ fctl = <<>>
    /\ fr = <<>>
    /\ mtx = <<>>

Start(any) ==
    /\ pc = "init"
    /\ exitcode = RUNNING
    /\ lock = "free"
    /\ obs = <<>>
    /\ cycles = 0
    /\ env = any
    /\ done = <<"armed">>
    /\ errno = "0"
    /\ taken = [steps |-> 0, old |-> 0,
                stamp |-> [i \in 0 .. (g.samples - 1) |-> 0]]
    /\ NoParts

Init ==
    /\ \E n \in 1 .. MaxCpu, l \in LevelChoices, f \in InitFreqs,
          cmd \in CommandLines, limits \in LimitChoices,
          samples \in 2 .. MaxSamples, foreground \in BOOLEAN,
          power \in {"steady", "changing"}, faults \in BOOLEAN,
          phantom \in 0 .. MaxPhantom :
          \E h \in [0 .. (n - 1) -> BOOLEAN] :
            /\ LET plain == <<PlainMachine(n, h, samples),
                              PlainLimits(l, limits),
                              PlainCommand(cmd, foreground, power),
                              ~faults,
                              phantom = 0>>
               IN  Cardinality({ i \in 1 .. 5 : ~plain[i] }) <= 1
            /\ sys = [Machine(n, h, l, f) EXCEPT !.phantom = phantom]
            /\ g = read_args(cmd, limits, samples, foreground)
            /\ Start([workload |-> "any", power |-> power,
                      faults |-> faults, cycles |-> MaxCycles])

(***************************************************************************)
(* Leaving main(): the exit code and the destructors still to run.         *)
(***************************************************************************)
\* A failure that ends the process on the spot.
ExitNow(code, guarded) ==
    /\ exitcode' = code
    /\ pc' = "exit"

\* An exception leaves run_daemon() through ~FreqGuard and ~Pidfile.
Throw(code, guarded) ==
    /\ exitcode' = code
    /\ pc' = IF code = ABORTED THEN "exit"
             ELSE IF guarded THEN "~FreqGuard" ELSE "~Pidfile"

(***************************************************************************)
(* init()                                                                  *)
(***************************************************************************)
Discover ==
    /\ pc = "init"
    /\ LET found == find_controllers(sys.hasfreq, sys.ncpu, 0, NOCTRL)
           lim   == core_limits(sys.levels, g.freq_min, g.freq_max)
           cores == [c \in 0 .. (sys.ncpu - 1) |->
                        IF found.ctl[c + 1] = c
                        THEN [Core EXCEPT !.controller = c,
                                          !.min = lim.min, !.max = lim.max]
                        ELSE [Core EXCEPT !.controller = found.ctl[c + 1]]]
       IN  IF found.fail
           THEN /\ exitcode' = ENOFREQ
                /\ pc' = "exit"
                /\ g' = [g EXCEPT !.ncpu = sys.ncpu]
                /\ obs' = obs
           ELSE IF ~lim.ok
           THEN /\ exitcode' = ABORTED
                /\ pc' = "exit"
                /\ g' = [g EXCEPT !.ncpu = sys.ncpu, !.cores = cores]
                /\ obs' = obs
           ELSE /\ exitcode' = exitcode
                /\ pc' = "reset"
                /\ g' = [g EXCEPT
                           !.ncpu = sys.ncpu,
                           !.cores = cores,
                           !.cp_times =
                              [i \in 0 .. (g.samples * sys.ncpu - 1) |->
                                  [s \in States |-> 0]]]
                /\ obs' = [c \in 0 .. (sys.ncpu - 1) |-> NoObs]
    /\ UNCHANGED <<sys, lock, cycles, env, done, errno, taken, parts>>

(***************************************************************************)
(* reset_cp_times(): one iteration of its loop.  The loop counter i is     *)
(* g.sample + 1, since every iteration advances g.sample from 0.           *)
(***************************************************************************)
ResetCpTimes ==
    /\ pc = "reset"
    /\ \E gain \in ResetPatterns(g.ncpu), ok \in BOOLEAN :
         LET kern == Advance(sys.cp_times, gain)
         IN  /\ sys' = [sys EXCEPT !.cp_times = kern]
             /\ IF tick_read(sys.phantom, ok) = "0"
                THEN /\ g' = update_cp_times(g, kern)
                     /\ taken' = sampled(taken, g)
                     /\ pc' = IF g'.sample + 1 < g.samples
                              THEN "reset" ELSE "run_daemon"
                     /\ exitcode' = exitcode
                ELSE /\ g' = g
                     /\ taken' = taken
                     /\ pc' = "exit"
                     /\ exitcode' = sysctl_fail(tick_read(sys.phantom, ok))
             /\ errno' = IF tick_read(sys.phantom, ok) = "0" THEN errno
                         ELSE tick_read(sys.phantom, ok)
    /\ UNCHANGED <<lock, obs, cycles, env, done, parts>>

(***************************************************************************)
(* run_daemon()                                                            *)
(***************************************************************************)
\* Pidfile pidfile{g.pidfilename, 0600} and the switch on pidfile.error().
OpenPidfile ==
    /\ pc = "run_daemon"
    /\ \E err \in {"0", "EEXIST", "EACCES"} :
         CASE err = "0"      -> /\ lock' = "held"
                                /\ pc' = "FreqGuard"
                                /\ exitcode' = exitcode
                                /\ done' = Append(done, "locked")
           [] err = "EEXIST" -> /\ lock' = lock
                                /\ Throw(ECONFLICT, FALSE)
                                /\ done' = done
           [] OTHER          -> /\ lock' = lock
                                /\ Throw(EPID, FALSE)
                                /\ done' = done
    /\ UNCHANGED <<sys, g, obs, cycles, env, errno, taken, parts>>

\* FreqGuard fguard: read and write the clock of every controlling core.
FreqGuardCtor ==
    /\ pc = "FreqGuard"
    /\ \E fault \in Faults(g.ncpu) :
         IF fault.core \in Controllers
         THEN /\ Throw(sysctl_fail(fault.kind), FALSE)
              /\ done' = done
              /\ errno' = sysctl_errno(fault.kind)
         ELSE /\ pc' = "daemon"
              /\ exitcode' = exitcode
              /\ done' = Append(done, "probed")
              /\ errno' = errno
    /\ UNCHANGED <<sys, g, lock, obs, cycles, env, taken, parts>>

\* A daemon() call that does not look at g.foreground.
DaemoniseAlways ==
    /\ pc = "daemon"
    /\ \E ok \in BOOLEAN :
         IF ok
         THEN /\ pc' = "pidwrite"
              /\ exitcode' = exitcode
              /\ done' = Append(done, "daemonized")
         ELSE Throw(EDAEMON, TRUE) /\ done' = done
    /\ UNCHANGED <<sys, g, lock, obs, cycles, env, errno, taken, parts>>

\* if (!g.foreground && -1 == ::daemon(0, 1))
Daemonise ==
    /\ pc = "daemon"
    /\ \E ok \in BOOLEAN :
         IF g.foreground \/ ok
         THEN /\ pc' = "pidwrite"
              /\ exitcode' = exitcode
              /\ done' = IF g.foreground THEN done
                          ELSE Append(done, "daemonized")
         ELSE Throw(EDAEMON, TRUE) /\ done' = done
    /\ UNCHANGED <<sys, g, lock, obs, cycles, env, errno, taken, parts>>

\* pidfile.write()
WritePid ==
    /\ pc = "pidwrite"
    /\ \E ok \in BOOLEAN :
         IF ok
         THEN /\ lock' = "written"
              /\ pc' = "loop"
              /\ exitcode' = exitcode
              /\ done' = Append(done, "pidwritten")
         ELSE /\ lock' = lock
              /\ Throw(EPID, TRUE)
              /\ done' = done
    /\ UNCHANGED <<sys, g, obs, cycles, env, errno, taken, parts>>

\* A loop test that only SIGTERM ends.
LoopTestTerm ==
    /\ pc = "loop"
    /\ IF g.signal # 15
       THEN /\ cycles < env.cycles
            /\ pc' = "sleep"
            /\ exitcode' = exitcode
            /\ done' = IF cycles = 0 THEN Append(done, "loop") ELSE done
       ELSE /\ pc' = "~FreqGuard"
            /\ exitcode' = OK
            /\ done' = done
    /\ UNCHANGED <<sys, g, lock, obs, cycles, env, errno, taken, parts>>

\* while (g.signal == 0)
LoopTest ==
    /\ pc = "loop"
    /\ IF g.signal = 0
       THEN /\ cycles < env.cycles
            /\ pc' = "sleep"
            /\ exitcode' = exitcode
            /\ done' = IF cycles = 0 THEN Append(done, "loop") ELSE done
       ELSE /\ pc' = "~FreqGuard"
            /\ exitcode' = OK
            /\ done' = done
    /\ UNCHANGED <<sys, g, lock, obs, cycles, env, errno, taken, parts>>

\* sleep_for(g.interval); update_freq();
UpdateFreq ==
    /\ pc = "sleep"
    /\ cycles' = cycles + 1
    /\ \E gain \in (IF env.workload = "idle" THEN IdlePatterns(g.ncpu)
                                               ELSE TickPatterns(g.ncpu)),
          ok \in (IF env.faults THEN BOOLEAN ELSE {TRUE}),
          read \in (CASE env.power = "changing" -> AclineReads
                      [] env.power = "erratic" -> AclineTunable
                      [] OTHER -> {Online}),
          junk \in (IF env.power = "erratic" THEN Junk ELSE {NoJunk}),
          fault \in (IF env.faults THEN Faults(g.ncpu) ELSE {NoFault}) :
         LET kern == Advance(sys.cp_times, gain)
             g2   == index_acline(update_load_times(g, kern), read, junk)
             r    == freq_loop(g2, 0, sys.freq,
                               [c \in Cores |-> NoObs], fault)
         IN  IF tick_read(sys.phantom, ok) # "0"
             THEN /\ sys' = [sys EXCEPT !.cp_times = kern]
                  /\ g' = g
                  /\ taken' = taken
                  /\ obs' = obs
                  /\ Throw(sysctl_fail(tick_read(sys.phantom, ok)), TRUE)
                  /\ errno' = tick_read(sys.phantom, ok)
             ELSE IF g2.target > 1024
             THEN /\ sys' = [sys EXCEPT !.cp_times = kern, !.acline = read]
                  /\ g' = g2
                  /\ taken' = sampled(taken, g)
                  /\ obs' = obs
                  /\ Throw(ABORTED, TRUE)
                  /\ errno' = errno
             ELSE /\ sys' = [sys EXCEPT !.cp_times = kern, !.freq = r.freq,
                                         !.acline = read]
                  /\ g' = g2
                  /\ taken' = sampled(taken, g)
                  /\ obs' = r.obs
                  /\ IF r.status = OK
                     THEN pc' = "loop" /\ exitcode' = exitcode
                     ELSE Throw(r.status, TRUE)
                  /\ errno' = IF r.status \in {OK, ABORTED} THEN errno
                              ELSE sysctl_errno(fault.kind)
    /\ UNCHANGED <<lock, env, done, parts>>

\* A guard that leaves the cores at their minimum.
guard_min(core) == core.min

\* sysctl_set(core.freq_mib, core.max): the clock ~FreqGuard() writes.
guard_freq(core) == core.max

\* ~FreqGuard(): set every controlling core to its maximum, ignoring
\* the writes that fail.
FreqGuardDtor ==
    /\ pc = "~FreqGuard"
    /\ \E failing \in SUBSET Controllers :
         sys' = [sys EXCEPT !.freq =
                   [c \in DOMAIN sys.freq |->
                       IF c \in Controllers \ failing
                       THEN guard_freq(g.cores[c]) ELSE sys.freq[c]]]
    /\ pc' = "~Pidfile"
    /\ done' = Append(done, "restored")
    /\ UNCHANGED <<exitcode, g, lock, obs, cycles, env, errno, taken, parts>>

\* ~Pidfile(): pidfile_remove()
PidfileDtor ==
    /\ pc = "~Pidfile"
    /\ lock' = "free"
    /\ pc' = "exit"
    /\ done' = Append(done, "released")
    /\ UNCHANGED <<exitcode, sys, g, obs, cycles, env, errno, taken, parts>>

\* signal_recv(): SIGINT (2) or SIGTERM (15) is delivered.  g.signal is
\* not read any more once the main loop is left.
signal_recv ==
    /\ pc \notin {"~FreqGuard", "~Pidfile", "exit"}
    /\ \E signal \in {2, 15} : g' = [g EXCEPT !.signal = signal]
    /\ UNCHANGED <<pc, exitcode, sys, lock, obs, cycles,
                   env, done, errno, taken, parts>>

Next ==
    \/ Discover
    \/ ResetCpTimes
    \/ OpenPidfile
    \/ FreqGuardCtor
    \/ Daemonise
    \/ WritePid
    \/ LoopTest
    \/ UpdateFreq
    \/ FreqGuardDtor
    \/ PidfileDtor
    \/ signal_recv

Spec == Init /\ [][Next]_vars

(***************************************************************************)
(* The end to end run: 2 cores sharing the frequency handle of core 0,     *)
(* 4 samples, the power line online with the default target load of       *)
(* 37.5 %, and a machine that is idle from the first sleep on.             *)
(***************************************************************************)
IdleSamples == 4
IdleCycles == 5

InitIdle ==
    /\ \E foreground \in BOOLEAN :
          g = read_args([b |-> NoArg, a |-> NoArg, n |-> NoArg],
                        <<0, 1000000>>, IdleSamples, foreground)
    /\ sys = Machine(2, [c \in 0 .. 1 |-> c = 0],
                     [present |-> TRUE, freqs |-> <<1000, 750, 500>>], 1000)
    /\ Start([workload |-> "idle", power |-> "steady", faults |-> FALSE,
              cycles |-> IdleCycles])

SpecIdle == InitIdle /\ [][Next]_vars

(***************************************************************************)
(* A machine whose hw.acpi.acline returns any number: 1 core with its      *)
(* frequency handle, 2 samples, any command line.                          *)
(***************************************************************************)
InitAcline ==
    /\ \E cmd \in CommandLines, foreground \in BOOLEAN :
          g = read_args(cmd, <<0, 1000000>>, 2, foreground)
    /\ sys = Machine(1, [c \in 0 .. 0 |-> TRUE],
                     [present |-> TRUE, freqs |-> <<1000, 750, 500>>], 1000)
    /\ Start([workload |-> "any", power |-> "erratic", faults |-> FALSE,
              cycles |-> MaxCycles])

SpecAcline == InitAcline /\ [][Next]_vars

(***************************************************************************)
(* Groups: machines of up to MaxCores cores with every placement of the    *)
(* frequency handles, idle, run in the foreground for one cycle.           *)
(***************************************************************************)
MaxCores == 4

InitGroups ==
    /\ g = read_args([b |-> NoArg, a |-> NoArg, n |-> NoArg],
                     <<0, 1000000>>, 2, TRUE)
    /\ \E n \in 1 .. MaxCores :
          \E h \in [0 .. (n - 1) -> BOOLEAN] :
             sys = Machine(n, h, [present |-> TRUE,
                                  freqs |-> <<1000, 750, 500>>], 1000)
    /\ Start([workload |-> "idle", power |-> "steady", faults |-> FALSE,
              cycles |-> 1])

SpecGroups == InitGroups /\ [][Next]_vars

(***************************************************************************)
(* Signals: one core, 2 samples, default modes; sysctl calls may fail.     *)
(* The process is scheduled: a step of main() that can be taken is taken,  *)
(* every call it makes returns.  Signals need not arrive.                  *)
(***************************************************************************)
InitSignal ==
    /\ \E foreground \in BOOLEAN :
          g = read_args([b |-> NoArg, a |-> NoArg, n |-> NoArg],
                        <<0, 1000000>>, 2, foreground)
    /\ sys = Machine(1, [c \in 0 .. 0 |-> TRUE],
                     [present |-> TRUE, freqs |-> <<1000, 750, 500>>], 1000)
    /\ \E faults \in BOOLEAN :
          Start([workload |-> "any", power |-> "steady", faults |-> faults,
                 cycles |-> MaxCycles])

\* The steps of the process itself.
Step ==
    \/ Discover
    \/ ResetCpTimes
    \/ OpenPidfile
    \/ FreqGuardCtor
    \/ Daemonise
    \/ WritePid
    \/ LoopTest
    \/ UpdateFreq
    \/ FreqGuardDtor
    \/ PidfileDtor

SpecSignal == InitSignal /\ [][Next]_vars /\ WF_vars(Step)

(***************************************************************************)
(* Two instances of the daemon and one pidfile: run_daemon() up to the     *)
(* main loop and the way out of it.  pidfile_open(3) locks the file, or    *)
(* fails with EEXIST and the process id found in the file, -1 if the       *)
(* holder of the lock has not written its process id yet.                  *)
(***************************************************************************)
MaxInst == 2

Instances == 1 .. MaxInst

\* The process id an instance starts with and the one of the child that
\* daemon() leaves running.
ParentPid(i) == 10 * i
ChildPid(i) == 10 * i + 1

\* The daemon parts at rest while a part is explored on its own.
NoDaemon ==
    /\ pc = "off"
    /\ exitcode = RUNNING
    /\ sys = <<>>
    /\ g = <<>>
    /\ lock = "free"
    /\ obs = <<>>
    /\ cycles = 0
    /\ env = <<>>
    /\ done = <<>>
    /\ errno = "0"
    /\ taken = <<>>

\* An exit code that does not tell a held lock from other failures.
generic_exit(err) == EPID

\* switch (pidfile.error()) of run_daemon()
pidfile_exit(err) ==
    CASE err = "EEXIST" -> ECONFLICT
      [] OTHER          -> EPID

\* The outcomes of Pidfile{pfname, mode} for instance i: the members err
\* and otherpid, whether pfh is set, and the pidfile afterwards.
Pidfile(i, file) ==
    { [err |-> "EACCES", otherpid |-> 0, pfh |-> FALSE, file |-> file] } \cup
    IF file.holder # 0
    THEN { [err |-> "EEXIST", otherpid |-> file.pid, pfh |-> FALSE,
            file |-> file] }
    ELSE { [err |-> "0", otherpid |-> 0, pfh |-> TRUE,
            file |-> [holder |-> i, pid |-> -1]] }

\* ~Pidfile(): pidfile_remove(pfh) deletes the file of the instance that
\* holds it, and does nothing for a null pfh.
pidfile_remove(pfh, file) ==
    IF pfh THEN [holder |-> 0, pid |-> -1] ELSE file

InitPid ==
    /\ NoDaemon
    /\ inst \in [Instances ->
                    { [pc |-> "start", pid |-> 0, err |-> "0", otherpid |-> 0,
                       pfh |-> FALSE, exitcode |-> RUNNING, foreground |-> f] :
                      f \in BOOLEAN }]
    /\ pidfile = [holder |-> 0, pid |-> -1]
    /\ th = <<>>
    /\ cyc = <<>>
    /\ opt = <<>>
    /\ lp = <<>>
    /\ rbuf = <<>>
    /\ fctl = <<>>
    /\ fr = <<>>
    /\ mtx = <<>>

\* fail(): the exception unwinds run_daemon() through ~Pidfile().
Fail(i, code, me) ==
    /\ inst' = [inst EXCEPT ![i] = [me EXCEPT !.pc = "exit", !.exitcode = code,
                                               !.pfh = FALSE]]
    /\ pidfile' = pidfile_remove(me.pfh, pidfile)

\* The process is started and opens the pidfile.
Open(i) ==
    /\ inst[i].pc = "start"
    /\ \E r \in Pidfile(i, pidfile) :
         LET me == [inst[i] EXCEPT !.pid = ParentPid(i), !.err = r.err,
                                   !.otherpid = r.otherpid, !.pfh = r.pfh]
         IN  IF r.err = "0"
             THEN /\ inst' = [inst EXCEPT ![i] = [me EXCEPT !.pc = "FreqGuard"]]
                  /\ pidfile' = r.file
             ELSE /\ inst' = [inst EXCEPT ![i] =
                               [me EXCEPT !.pc = "exit",
                                          !.exitcode = pidfile_exit(r.err)]]
                  /\ pidfile' = pidfile_remove(r.pfh, r.file)
    /\ UNCHANGED <<daemon, th, cyc, opt, lp, rbuf, loadplay>>

\* FreqGuard fguard
Guard(i) ==
    /\ inst[i].pc = "FreqGuard"
    /\ \E ok \in BOOLEAN :
         IF ok
         THEN /\ inst' = [inst EXCEPT ![i].pc = "daemon"]
              /\ pidfile' = pidfile
         ELSE Fail(i, ESYSCTL, inst[i])
    /\ UNCHANGED <<daemon, th, cyc, opt, lp, rbuf, loadplay>>

\* daemon(0, 1): the child carries on with the lock.
Detach(i) ==
    /\ inst[i].pc = "daemon"
    /\ \E ok \in BOOLEAN :
         IF inst[i].foreground
         THEN /\ inst' = [inst EXCEPT ![i].pc = "pidwrite"]
              /\ pidfile' = pidfile
         ELSE IF ok
         THEN /\ inst' = [inst EXCEPT ![i].pc = "pidwrite",
                                       ![i].pid = ChildPid(i)]
              /\ pidfile' = pidfile
         ELSE Fail(i, EDAEMON, inst[i])
    /\ UNCHANGED <<daemon, th, cyc, opt, lp, rbuf, loadplay>>

\* pidfile.write()
Write(i) ==
    /\ inst[i].pc = "pidwrite"
    /\ \E ok \in BOOLEAN :
         IF ok
         THEN /\ inst' = [inst EXCEPT ![i].pc = "loop"]
              /\ pidfile' = [pidfile EXCEPT !.pid = inst[i].pid]
         ELSE Fail(i, EPID, [inst[i] EXCEPT !.err = "EIO"])
    /\ UNCHANGED <<daemon, th, cyc, opt, lp, rbuf, loadplay>>

\* A signal ends the main loop.
Stop(i) ==
    /\ inst[i].pc = "loop"
    /\ Fail(i, OK, inst[i])
    /\ UNCHANGED <<daemon, th, cyc, opt, lp, rbuf, loadplay>>

NextPid ==
    \E i \in Instances :
        \/ Open(i)
        \/ Guard(i)
        \/ Detach(i)
        \/ Write(i)
        \/ Stop(i)

SpecPid == InitPid /\ [][NextPid]_vars

(***************************************************************************)
(* Temperature throttling.  update_freq() of powerd++.cpp has no           *)
(* temperature input; of the throttling only the offset of the high        *)
(* threshold below the critical one is in the sources (constants.hpp).     *)
(* The overlay is modelled as the specification states it: at or above     *)
(* the critical temperature the frequency is min; between high and         *)
(* critical the ceiling goes linearly from max to min and the result is    *)
(* floored at min; up to high the load derived value stays.                *)
(* Temperatures are in dK.                                                 *)
(***************************************************************************)
HITEMP_OFFSET == 100

\* A ceiling that rises with the temperature.
rising_ceiling(temp, high, crit, min, max) ==
    min + ((max - min) * (temp - high)) \div (crit - high)

\* The frequency ceiling at a temperature in [high, crit].
ceiling(temp, high, crit, min, max) ==
    max - ((max - min) * (temp - high)) \div (crit - high)

\* An overlay that throttles below the critical temperature only.
throttle_below(loadfreq, temp, high, crit, min, max) ==
    IF temp > high /\ temp < crit
    THEN Max(Min(loadfreq, ceiling(temp, high, crit, min, max)), min)
    ELSE loadfreq

\* The frequency left of the load derived frequency loadfreq.
throttle(loadfreq, temp, high, crit, min, max) ==
    IF temp >= crit THEN min
    ELSE IF temp > high
    THEN Max(Min(loadfreq, ceiling(temp, high, crit, min, max)), min)
    ELSE loadfreq

\* The thresholds: the critical temperature of the core with the high
\* one HITEMP_OFFSET below it, or both given by the user.
Thresholds ==
    { [high |-> crit - HITEMP_OFFSET, crit |-> crit] : crit \in {3532, 3732} }
      \cup { [high |-> 3432, crit |-> 3462] }

\* Temperatures around the thresholds r.
Temperatures(r) ==
    { r.high - 50, r.high, r.high + 1, (r.high + r.crit) \div 2,
      r.crit - 1, r.crit, r.crit + 50 }

InitThrottle ==
    /\ NoDaemon
    /\ inst = <<>>
    /\ pidfile = [holder |-> 0, pid |-> -1]
    /\ cyc = <<>>
    /\ opt = <<>>
    /\ lp = <<>>
    /\ rbuf = <<>>
    /\ fctl = <<>>
    /\ fr = <<>>
    /\ mtx = <<>>
    /\ \E r \in Thresholds, lim \in {<<500, 1000>>, <<600, 800>>},
          want \in {0, 640, 790, 1333} :
          \E temp \in Temperatures(r) :
            th = [pc |-> "load", wantfreq |-> want, min |-> lim[1],
                  max |-> lim[2], temp |-> temp, high |-> r.high,
                  crit |-> r.crit, loadfreq |-> 0, newfreq |-> 0]

\* Effective frequency starts at clamp(wanted, min, max).
Clamp ==
    /\ th.pc = "load"
    /\ th' = [th EXCEPT !.pc = "temp",
                        !.loadfreq = apply_limits(th.wantfreq, th.min, th.max)]
    /\ UNCHANGED <<daemon, inst, pidfile, cyc, opt, lp, rbuf, loadplay>>

\* The overlay is applied to the load derived frequency.
Throttle ==
    /\ th.pc = "temp"
    /\ th' = [th EXCEPT !.pc = "done",
                        !.newfreq = throttle(th.loadfreq, th.temp, th.high,
                                             th.crit, th.min, th.max)]
    /\ UNCHANGED <<daemon, inst, pidfile, cyc, opt, lp, rbuf, loadplay>>

NextThrottle ==
    \/ Clamp
    \/ Throttle

SpecThrottle == InitThrottle /\ [][NextThrottle]_vars

(***************************************************************************)
(* timing::Cycle (Cycle.hpp) and a caller that sleeps, works and retries   *)
(* interrupted sleeps.  Time is counted in ticks of the steady clock,      *)
(* TicksPerUs of them in a microsecond; usleep() takes microseconds.       *)
(***************************************************************************)
TicksPerUs == 2
MaxSleeps == 3
MaxEvents == 3
MaxDelay == 3

\* The cycle times the caller passes, in ticks.
Intervals == {4, 7}

\* duration_cast<us>(clk - clock::now()).count()
remainingTime(clk, now) ==
    IF clk >= now THEN (clk - now) \div TicksPerUs
    ELSE -((now - clk) \div TicksPerUs)

\* A deadline counted from the time of the call.
from_now(clk, now, cycleTime) == now + cycleTime

\* this->clk += cycleTime
next_clk(clk, now, cycleTime) == clk + cycleTime

\* A retry that starts the cycle over.
restart_clk(clk, now, cycleTime) == now + cycleTime

\* operator ()() const: clk is left as it is.
retry_clk(clk, now, cycleTime) == clk

InitCycle ==
    /\ NoDaemon
    /\ inst = <<>>
    /\ pidfile = [holder |-> 0, pid |-> -1]
    /\ th = <<>>
    /\ opt = <<>>
    /\ lp = <<>>
    /\ rbuf = <<>>
    /\ fctl = <<>>
    /\ fr = <<>>
    /\ mtx = <<>>
    /\ \E born \in {0, 5} :
          cyc = [born |-> born, clk |-> born, now |-> born, sum |-> 0,
                 sleeps |-> 0, events |-> 0, cycleTime |-> 0, pc |-> "awake",
                 wake |-> born, ret |-> TRUE, op |-> "Cycle"]

\* operator ()() on the deadline clk: return at once if no whole
\* microsecond remains, else enter usleep().
Call(c, clk, op) ==
    LET sleepDuration == remainingTime(clk, c.now)
    IN  IF sleepDuration <= 0
        THEN [c EXCEPT !.clk = clk, !.op = op, !.ret = TRUE, !.wake = c.now]
        ELSE [c EXCEPT !.clk = clk, !.op = op, !.pc = "usleep",
                       !.wake = c.now + sleepDuration * TicksPerUs]

\* sleep(cycleTime)
Sleep ==
    /\ cyc.pc = "awake"
    /\ cyc.sleeps < MaxSleeps
    /\ \E cycleTime \in Intervals :
         cyc' = Call([cyc EXCEPT !.sleeps = cyc.sleeps + 1,
                                 !.sum = cyc.sum + cycleTime,
                                 !.cycleTime = cycleTime],
                     next_clk(cyc.clk, cyc.now, cycleTime), "sleep")
    /\ UNCHANGED <<daemon, inst, pidfile, th, opt, lp, rbuf, loadplay>>

\* sleep() after an interrupted sleep
Retry ==
    /\ cyc.pc = "awake"
    /\ ~cyc.ret
    /\ cyc' = Call(cyc, retry_clk(cyc.clk, cyc.now, cyc.cycleTime), "retry")
    /\ UNCHANGED <<daemon, inst, pidfile, th, opt, lp, rbuf, loadplay>>

\* usleep() returns 0, on time or a tick late.
Wake ==
    /\ cyc.pc = "usleep"
    /\ \E late \in 0 .. 1 :
         cyc' = [cyc EXCEPT !.pc = "awake", !.ret = TRUE,
                            !.now = cyc.wake + late]
    /\ UNCHANGED <<daemon, inst, pidfile, th, opt, lp, rbuf, loadplay>>

\* usleep() is interrupted by a signal and returns -1.
Interrupt ==
    /\ cyc.pc = "usleep"
    /\ cyc.events < MaxEvents
    /\ \E t \in cyc.now .. (cyc.wake - 1) :
         cyc' = [cyc EXCEPT !.pc = "awake", !.ret = FALSE, !.now = t,
                            !.events = cyc.events + 1]
    /\ UNCHANGED <<daemon, inst, pidfile, th, opt, lp, rbuf, loadplay>>

\* The caller does its work between two calls.
Work ==
    /\ cyc.pc = "awake"
    /\ cyc.events < MaxEvents
    /\ \E d \in 1 .. MaxDelay :
         cyc' = [cyc EXCEPT !.now = cyc.now + d, !.events = cyc.events + 1]
    /\ UNCHANGED <<daemon, inst, pidfile, th, opt, lp, rbuf, loadplay>>

NextCycle ==
    \/ Sleep
    \/ Retry
    \/ Wake
    \/ Interrupt
    \/ Work

SpecCycle == InitCycle /\ [][NextCycle]_vars

(***************************************************************************)
(* nih::Options (Options.hpp) and a caller that calls the functor and      *)
(* reads arguments with operator [].  A string is the sequence of its      *)
(* characters; the character past its end is NUL; argv[0] is argv[1] here. *)
(***************************************************************************)
MaxArgs == 3
MaxCalls == 5
MaxIndex == 2

NUL == ""

\* The parameter definitions: a flag v and a parameter i with one argument.
Defs ==
    << [option |-> "FLAG_VERBOSE", sparam |-> "v",
        lparam |-> <<"v", "e", "r", "b", "o", "s", "e">>, args |-> <<>>],
       [option |-> "FILE_IN", sparam |-> "i",
        lparam |-> <<"i", "n">>, args |-> <<"file">>] >>

opt_unknown == [option |-> "OPT_UNKNOWN", sparam |-> NUL, lparam |-> <<>>, args |-> <<>>]
opt_noopt == [option |-> "OPT_NOOPT", sparam |-> NUL, lparam |-> <<>>, args |-> <<>>]
opt_dash == [option |-> "OPT_DASH", sparam |-> NUL, lparam |-> <<>>, args |-> <<>>]
opt_ldash == [option |-> "OPT_LDASH", sparam |-> NUL, lparam |-> <<>>, args |-> <<>>]

\* current == nullptr
NoCurrent == [option |-> "nullptr", sparam |-> NUL, lparam |-> <<>>, args |-> <<>>]

\* argp == nullptr; otherwise argp is an offset into argv[argi].
NoArgp == -1

\* The words command lines are made of.
Words ==
    { <<"-", "v">>, <<"-", "i">>, <<"f", "i", "l", "e">>, <<"-", "v", "i">>,
      <<"-", "v", "i", "f", "i", "l", "e">>, <<"-", "-", "i", "n">>,
      <<"-">>, <<"-", "x", "v">> }

Program == <<"p">>

\* The command lines: the program name and up to MaxArgs words.
RECURSIVE Lines(_)
Lines(n) ==
    IF n = 0 THEN { <<Program>> }
    ELSE Lines(n - 1) \cup
         { Append(l, w) : l \in { k \in Lines(n - 1) : Len(k) = n }, w \in Words }

\* str[k] for a terminated string.
CharAt(str, k) == IF k < Len(str) THEN str[k + 1] ELSE NUL

\* str + k
From(str, k) == SubSeq(str, k + 1, Len(str))

argCount(def) == Len(def.args)

match(lstr, rstr) == lstr = rstr

\* bmatch(lstr, rstr): the strings agree up to the end of the shorter.
bmatch(lstr, rstr) ==
    \A k \in 1 .. Min(Len(lstr), Len(rstr)) : lstr[k] = rstr[k]

\* get(char)
get_ch(ch) ==
    IF ch = NUL THEN opt_dash
    ELSE IF \E d \in 1 .. Len(Defs) : Defs[d].sparam = ch
    THEN Defs[CHOOSE d \in 1 .. Len(Defs) :
                 /\ Defs[d].sparam = ch
                 /\ \A e \in 1 .. (d - 1) : Defs[e].sparam # ch]
    ELSE opt_unknown

\* get(char const *)
get_str(str) ==
    IF str = <<>> THEN opt_ldash
    ELSE IF \E d \in 1 .. Len(Defs) : match(str, Defs[d].lparam)
    THEN Defs[CHOOSE d \in 1 .. Len(Defs) :
                 /\ match(str, Defs[d].lparam)
                 /\ \A e \in 1 .. (d - 1) : ~match(str, Defs[e].lparam)]
    ELSE opt_unknown

\* Whatever a get() may return.
AnyDef == { Defs[d] : d \in 1 .. Len(Defs) } \cup {opt_unknown, opt_ldash}

\* argv[k] of the command line.
Arg(o, k) == o.argv[k + 1]
Argc(o) == Len(o.argv)

\* this->argp && this->argp[0] && this->argp[1]
InChain(o) ==
    /\ o.argp # NoArgp
    /\ CharAt(Arg(o, o.argi), o.argp) # NUL
    /\ CharAt(Arg(o, o.argi), o.argp + 1) # NUL

\* An advance that steps over the argument inside a chain as well.
skip_more(o) ==
    IF o.current = NoCurrent THEN [o EXCEPT !.argi = 1, !.argp = NoArgp]
    ELSE [o EXCEPT !.argp = NoArgp, !.argi = o.argi + argCount(o.current) + 1]

\* operator ()(): the first half, moving argi and argp on.
advance(o) ==
    IF o.current # NoCurrent
    THEN IF InChain(o)
         THEN IF argCount(o.current) = 0
              THEN [o EXCEPT !.argp = o.argp + 1]
              ELSE [o EXCEPT !.argp = NoArgp,
                             !.argi = o.argi + argCount(o.current)]
         ELSE [o EXCEPT !.argp = NoArgp,
                        !.argi = o.argi + argCount(o.current) + 1]
    ELSE [o EXCEPT !.argi = 1, !.argp = NoArgp]

\* operator ()(): the second half, selecting current.  For an argument
\* shorter than "--" that bmatch() accepts, get() is handed a pointer
\* past the end of the argument and may return anything.
select(o) ==
    IF o.argi >= Argc(o) THEN { [o EXCEPT !.current = NoCurrent] }
    ELSE IF o.argp # NoArgp
    THEN { [o EXCEPT !.current = get_ch(CharAt(Arg(o, o.argi), o.argp))] }
    ELSE IF bmatch(Arg(o, o.argi), <<"-", "-">>)
    THEN IF Len(Arg(o, o.argi)) < 2
         THEN { [o EXCEPT !.current = d] : d \in AnyDef }
         ELSE { [o EXCEPT !.current = get_str(From(Arg(o, o.argi), 2))] }
    ELSE IF CharAt(Arg(o, o.argi), 0) = "-"
    THEN { [o EXCEPT !.argp = 1,
                     !.current = get_ch(CharAt(Arg(o, o.argi), 1))] }
    ELSE { [o EXCEPT !.current = opt_noopt] }

\* operator OptionT()
Option(o) == IF o.current # NoCurrent THEN o.current.option ELSE "OPT_DONE"

\* An operator [] that does not look at argc.
index_unchecked(o, i) == [at |-> o.argi + i, from |-> 0]

\* operator [](i): the string returned, and the index at which argv was
\* read (-1 if it was not), and the offset into that argument.
index(o, i) ==
    IF InChain(o) /\ i > 0
    THEN IF o.argi + i - 1 >= Argc(o) THEN [at |-> -1, from |-> 0]
         ELSE IF i = 1 THEN [at |-> o.argi, from |-> o.argp + 1]
         ELSE [at |-> o.argi + i - 1, from |-> 0]
    ELSE IF o.argi + i < 0 THEN [at |-> -1, from |-> 0]
    ELSE IF o.argi + i < Argc(o) THEN [at |-> o.argi + i, from |-> 0]
    ELSE [at |-> -1, from |-> 0]

\* The string operator [](i) returns; a read outside argv gives no string
\* of the command line.
Value(o, i) ==
    LET r == index(o, i)
    IN  IF r.at = -1 THEN <<>>
        ELSE IF r.at \in 0 .. (Argc(o) - 1) THEN From(Arg(o, r.at), r.from)
        ELSE <<"?">>

NoRead == [i |-> 0, at |-> -1, from |-> 0, val |-> <<>>, valid |-> FALSE]

InitOptions ==
    /\ NoDaemon
    /\ inst = <<>>
    /\ pidfile = [holder |-> 0, pid |-> -1]
    /\ th = <<>>
    /\ cyc = <<>>
    /\ lp = <<>>
    /\ rbuf = <<>>
    /\ fctl = <<>>
    /\ fr = <<>>
    /\ mtx = <<>>
    /\ \E argv \in Lines(MaxArgs) :
          opt = [argv |-> argv, argi |-> 0, argp |-> NoArgp,
                 current |-> NoCurrent, results |-> <<>>, read |-> NoRead]

\* getopt(): operator ()() and the caller's look at the result.
Getopt ==
    /\ Len(opt.results) < MaxCalls
    /\ \E o \in select(advance(opt)) :
          opt' = [o EXCEPT !.results = Append(opt.results,
                                               [option |-> Option(o),
                                                first |-> Value(o, 1),
                                                arg |-> o.argi,
                                                pos |-> o.argp]),
                           !.read = NoRead]
    /\ UNCHANGED <<daemon, inst, pidfile, th, cyc, lp, rbuf, loadplay>>

\* getopt[i]
Index ==
    /\ \E i \in (-MaxIndex) .. MaxIndex :
          opt' = [opt EXCEPT !.read = [i |-> i, at |-> index(opt, i).at,
                                       from |-> index(opt, i).from,
                                       val |-> Value(opt, i), valid |-> TRUE]]
    /\ UNCHANGED <<daemon, inst, pidfile, th, cyc, lp, rbuf, loadplay>>

NextOptions ==
    \/ Getopt
    \/ Index

SpecOptions == InitOptions /\ [][NextOptions]_vars

(***************************************************************************)
(* libloadplay (libloadplay.cpp): the Main object, the emulator thread and *)
(* the sysctl() calls of the hijacked process.  Main::die is written by    *)
(* ~Main() and read by the emulator thread without synchronisation; a read *)
(* returns the value die has at the time of the read.                      *)
(***************************************************************************)
MaxFrames == 2
MaxSysctls == 3

NoCall == [called |-> FALSE, via |-> "none", ret |-> 0, failed |-> FALSE]

\* Sysctl names, as the list of their components between the dots.
FREQ == <<"dev", "cpu", "%d", "freq">>
FREQ_LEVELS == <<"dev", "cpu", "%d", "freq_levels">>
TEMPERATURE == <<"dev", "cpu", "%d", "temperature">>
TJMAX == <<"dev", "cpu", "%d", "coretemp", "tjmax">>
FREQ_DRIVER == <<"dev", "cpufreq", "%d", "freq_driver">>

\* Sysctls::mibs as constructed.
BaseNames ==
    { <<"hw", "machine">>, <<"hw", "model">>, <<"hw", "ncpu">>,
      <<"hw", "acpi", "acline">>, FREQ, FREQ_LEVELS, <<"kern", "cp_times">>,
      <<"usr", "app", "powerdxx", "loadrec", "features">>, FREQ_DRIVER,
      TEMPERATURE, TJMAX }

\* The components the regular expression [0-9]+ matches.
Numbers == {"0", "1", "7"}

\* A base name that is the name itself.
same_name(name) == name

\* std::regex_replace(name, "\\.([0-9]+)\\."_r, ".%d."): every number
\* between two dots is replaced; a match takes both dots, so the
\* component that follows a replaced one is not matched.
RECURSIVE replace_from(_, _)
replace_from(name, k) ==
    IF k >= Len(name) THEN name
    ELSE IF name[k] \in Numbers
    THEN replace_from([name EXCEPT ![k] = "%d"], k + 2)
    ELSE replace_from(name, k + 1)

\* The name getBaseMib() looks up.
baseName(name) == replace_from(name, 2)

\* std::regex_search(name, match, "\\.([0-9]+)\\."_r)
regex_search(name) == \E k \in 2 .. (Len(name) - 1) : name[k] \in Numbers

\* Sysctls::addValue(name, value): the names of mibs afterwards.
addValue(mibs, name) ==
    IF name \in mibs THEN mibs
    ELSE IF baseName(name) \in mibs /\ regex_search(name)
    THEN mibs \cup {name}
    ELSE mibs

\* addValue() for every static sysctl of a load record.
RECURSIVE addValues(_, _)
addValues(mibs, record) ==
    IF record = <<>> THEN mibs
    ELSE addValues(addValue(mibs, Head(record)), Tail(record))

\* The static sysctls of the load records tried; dev.cpu.0.freq is
\* required by Main::Main().
Records ==
    { << <<"dev", "cpu", "0", "freq">> >>,
      << <<"hw", "ncpu">>, <<"dev", "cpu", "0", "freq">>,
         <<"dev", "cpu", "0", "freq_levels">>,
         <<"dev", "cpu", "1", "freq">>, <<"dev", "pci", "0", "driver">> >> }

\* The names the hijacked process asks for.
Names ==
    { <<"dev", "cpu", "0", "freq">>, <<"dev", "cpu", "1", "freq">>,
      <<"dev", "cpu", "7", "temperature">>, <<"hw", "ncpu">>,
      <<"kern", "ostype">>, <<"dev", "pci", "0", "driver">>,
      <<"dev", "cpu", "0", "1", "freq">> }

NoLookup ==
    [called |-> FALSE, name |-> <<>>, startup |-> FALSE, via |-> "none",
     ret |-> 0, errno |-> "0"]

InitLoadplay ==
    /\ NoDaemon
    /\ inst = <<>>
    /\ pidfile = [holder |-> 0, pid |-> -1]
    /\ th = <<>>
    /\ cyc = <<>>
    /\ opt = <<>>
    /\ rbuf = <<>>
    /\ fctl = <<>>
    /\ fr = <<>>
    /\ mtx = <<>>
    /\ \E frames \in 0 .. MaxFrames, complete \in BOOLEAN :
          lp = [main |-> "Main", sysctl_startup |-> TRUE, sys_results |-> 0,
                die |-> FALSE, emu |-> "none", frames |-> frames,
                complete |-> complete, raised |-> 0, calls |-> 0,
                last |-> NoCall, mibs |-> BaseNames, lookup |-> NoLookup]

\* fail()
lp_fail(l) == [l EXCEPT !.sys_results = -1]

\* Main::Main(): the load record is read and the emulator thread started,
\* or one of the steps fails and the constructor returns.
MainCtor ==
    /\ lp.main = "Main"
    /\ \E ok \in BOOLEAN, record \in Records :
          lp' = IF ok
                THEN [lp EXCEPT !.main = "running", !.emu = "start",
                                !.sysctl_startup = FALSE,
                                !.mibs = addValues(lp.mibs, record)]
                ELSE [lp_fail(lp) EXCEPT
                         !.main = "running",
                         !.mibs = addValues(lp.mibs, record)]
    /\ UNCHANGED <<daemon, inst, pidfile, th, cyc, opt, rbuf, loadplay>>

\* An emulator that does not look at die.
deaf(die) == FALSE

\* this->die as the emulator thread reads it.
told(die) == die

\* Emulator::operator ()(): set-up before the first frame; an incomplete
\* set-up throws std::out_of_range, which ends the thread through fail().
EmuStart ==
    /\ lp.emu = "start"
    /\ lp' = IF lp.complete THEN [lp EXCEPT !.emu = "loop"]
             ELSE [lp_fail(lp) EXCEPT !.emu = "ended"]
    /\ UNCHANGED <<daemon, inst, pidfile, th, cyc, opt, rbuf, loadplay>>

\* The loop condition: !this->die
EmuLoop ==
    /\ lp.emu = "loop"
    /\ lp' = [lp EXCEPT !.emu = IF told(lp.die) THEN "check" ELSE "scanf"]
    /\ UNCHANGED <<daemon, inst, pidfile, th, cyc, opt, rbuf, loadplay>>

\* The loop condition: 1 == this->fin.scanf("%ju", duration)
EmuScan ==
    /\ lp.emu = "scanf"
    /\ lp' = IF lp.frames > 0
             THEN [lp EXCEPT !.emu = "frame", !.frames = lp.frames - 1]
             ELSE [lp EXCEPT !.emu = "check"]
    /\ UNCHANGED <<daemon, inst, pidfile, th, cyc, opt, rbuf, loadplay>>

\* The frame up to cp_times.set() and the call of sleep_until().
EmuFrame ==
    /\ lp.emu = "frame"
    /\ lp' = [lp EXCEPT !.emu = "sleep"]
    /\ UNCHANGED <<daemon, inst, pidfile, th, cyc, opt, rbuf, loadplay>>

\* sleep_until() returns; the end of the frame.
EmuWake ==
    /\ lp.emu = "sleep"
    /\ lp' = [lp EXCEPT !.emu = "loop"]
    /\ UNCHANGED <<daemon, inst, pidfile, th, cyc, opt, rbuf, loadplay>>

\* if (!this->die)
EmuCheck ==
    /\ lp.emu = "check"
    /\ lp' = [lp EXCEPT !.emu = IF told(lp.die) THEN "ended" ELSE "raise"]
    /\ UNCHANGED <<daemon, inst, pidfile, th, cyc, opt, rbuf, loadplay>>

\* raise(SIGINT)
EmuRaise ==
    /\ lp.emu = "raise"
    /\ lp' = [lp EXCEPT !.emu = "ended", !.raised = lp.raised + 1]
    /\ UNCHANGED <<daemon, inst, pidfile, th, cyc, opt, rbuf, loadplay>>

\* sysctl(): the value returned for a MIB that is or is not in the
\* sysctls store; real is what the original sysctl() returns, fits
\* whether the buffers given suit the simulated value.
lp_sysctl(l, known, real, fits) ==
    IF l.sysctl_startup THEN [via |-> "sys", ret |-> real]
    ELSE IF known
    THEN [via |-> "sim", ret |-> IF fits THEN l.sys_results ELSE -1]
    ELSE [via |-> "sys", ret |-> real]

\* The hijacked process calls sysctl().
Sysctl ==
    /\ lp.main = "running"
    /\ lp.calls < MaxSysctls
    /\ \E known \in BOOLEAN, real \in {0, -1}, fits \in BOOLEAN :
          LET r == lp_sysctl(lp, known, real, fits)
          IN  lp' = [lp EXCEPT !.calls = lp.calls + 1,
                               !.last = [called |-> TRUE, via |-> r.via,
                                         ret |-> r.ret,
                                         failed |-> lp.sys_results = -1]]
    /\ UNCHANGED <<daemon, inst, pidfile, th, cyc, opt, rbuf, loadplay>>

\* sysctlnametomib(): how the name is answered; real is what the
\* original sysctlnametomib() returns.
lp_nametomib(l, name, real) ==
    IF l.sysctl_startup
    THEN [via |-> "sys", ret |-> real.ret, errno |-> real.errno]
    ELSE IF name \in l.mibs
    THEN [via |-> "sim", ret |-> l.sys_results, errno |-> "0"]
    ELSE IF baseName(name) \in l.mibs
    THEN [via |-> "sim", ret |-> -1, errno |-> "ENOENT"]
    ELSE [via |-> "sys", ret |-> real.ret, errno |-> real.errno]

\* The hijacked process calls sysctlnametomib().
NameToMib ==
    /\ lp.main = "running"
    /\ \E name \in Names,
          real \in {[ret |-> 0, errno |-> "0"], [ret |-> -1, errno |-> "ENOENT"]} :
          LET r == lp_nametomib(lp, name, real)
          IN  lp' = [lp EXCEPT !.lookup = [called |-> TRUE, name |-> name,
                                           startup |-> lp.sysctl_startup,
                                           via |-> r.via, ret |-> r.ret,
                                           errno |-> r.errno]]
    /\ UNCHANGED <<daemon, inst, pidfile, th, cyc, opt, rbuf, loadplay>>

\* ~Main(): this->die = true
MainDtor ==
    /\ lp.main = "running"
    /\ lp' = [lp EXCEPT !.die = TRUE,
                        !.main = IF lp.emu = "none" THEN "gone" ELSE "join"]
    /\ UNCHANGED <<daemon, inst, pidfile, th, cyc, opt, rbuf, loadplay>>

\* ~Main(): this->bgthread.join() returns.
Join ==
    /\ lp.main = "join"
    /\ lp.emu = "ended"
    /\ lp' = [lp EXCEPT !.main = "gone"]
    /\ UNCHANGED <<daemon, inst, pidfile, th, cyc, opt, rbuf, loadplay>>

\* The steps of the emulator thread.
Emulator ==
    \/ EmuStart
    \/ EmuLoop
    \/ EmuScan
    \/ EmuFrame
    \/ EmuWake
    \/ EmuCheck
    \/ EmuRaise

NextLoadplay ==
    \/ MainCtor
    \/ Emulator
    \/ Sysctl
    \/ NameToMib
    \/ MainDtor
    \/ Join

\* The emulator thread is scheduled and its reads and sleeps return; a
\* join() returns once the thread has ended.
SpecLoadplay ==
    InitLoadplay /\ [][NextLoadplay]_vars /\ WF_vars(Emulator) /\ WF_vars(Join)

(***************************************************************************)
(* The load ring buffer of a group.  Every sampling cycle each group's     *)
(* ring buffer absorbs the group's new load sample with an incremental     *)
(* update, and the shared sample index advances.                           *)
(***************************************************************************)
\* The largest sample count.
MaxRing == 3

\* The groups, and the loads a group can have in a cycle, in MHz.
RingGroups == {0, 1}
GroupLoads == {0, 400, 1000}

\* An update that adds the new sample and forgets the evicted one.
accumulate(gr, i, new) ==
    [loads |-> [gr.loads EXCEPT ![i] = new], loadsum |-> gr.loadsum + new]

\* Subtract the evicted slot, write the new value, add to the rolling sum.
absorb(gr, i, new) ==
    [loads |-> [gr.loads EXCEPT ![i] = new],
     loadsum |-> gr.loadsum - gr.loads[i] + new]

\* The ring buffers as allocated: samples slots per group.
InitRing ==
    /\ NoDaemon
    /\ inst = <<>>
    /\ pidfile = [holder |-> 0, pid |-> -1]
    /\ th = <<>>
    /\ cyc = <<>>
    /\ opt = <<>>
    /\ lp = <<>>
    /\ fctl = <<>>
    /\ fr = <<>>
    /\ mtx = <<>>
    /\ \E samples \in 1 .. MaxRing :
          rbuf = [samples |-> samples, sample |-> 0, wrapped |-> FALSE,
                  evicted |-> [k \in RingGroups |-> 0],
                  groups |-> [k \in RingGroups |->
                                [loads |-> [i \in 0 .. (samples - 1) |-> 0],
                                 loadsum |-> 0]]]

\* One sampling cycle: every group absorbs its new sample, then the
\* shared sample index advances modulo the sample count.
Absorb ==
    /\ rbuf # <<>>
    /\ \E new \in [RingGroups -> GroupLoads] :
          rbuf' = [rbuf EXCEPT
                     !.groups = [k \in RingGroups |->
                                   absorb(rbuf.groups[k], rbuf.sample, new[k])],
                     !.evicted = [k \in RingGroups |->
                                    rbuf.groups[k].loads[rbuf.sample]],
                     !.wrapped = @ \/ rbuf.sample + 1 = rbuf.samples,
                     !.sample = (rbuf.sample + 1) % rbuf.samples]
    /\ UNCHANGED <<daemon, inst, pidfile, th, cyc, opt, lp, loadplay>>

NextRing == Absorb

SpecRing == InitRing /\ [][NextRing]_vars

(***************************************************************************)
(* libloadplay: an emulated dev.cpu.N.freq.  The hijacked process writes   *)
(* it through sysctl(); SysctlValue::set() stores the value and calls the  *)
(* on-set callback the emulator has registered, which stores the nearest   *)
(* frequency level through set() again.                                    *)
(***************************************************************************)
\* The frequency levels of a core: the frequencies of its freq_levels, in
\* the order given; empty without freq_levels.
FreqLevels ==
    { <<>>, <<1000, 750, 500>>, <<800>>, <<600, 1200, 2400>>,
      <<1000000, 2000000>>, <<1500000, 900>> }

\* The values the hijacked process writes, as int.
Written == {-5, 0, 499, 625, 875, 900, 1200, 5000}

\* SysctlValue::get<mhz_t>(): std::from_chars() into an unsigned takes no
\* sign, so a negative value reads as 0.
get_mhz(value) == IF value < 0 THEN 0 ELSE value

\* lvl > freq ? lvl - freq : freq - lvl
lvldiff(lvl, mhz) == IF lvl > mhz THEN lvl - mhz ELSE mhz - lvl

\* A choice of the first level whatever its distance.
RECURSIVE first_level(_, _, _, _)
first_level(levels, mhz, result, diff) ==
    IF levels = <<>> THEN result ELSE Head(levels)

\* The loop of the on-set callback over the levels from `levels` on.
RECURSIVE nearest(_, _, _, _)
nearest(levels, mhz, result, diff) ==
    IF levels = <<>> THEN result
    ELSE IF lvldiff(Head(levels), mhz) < diff
    THEN nearest(Tail(levels), mhz, Head(levels),
                 lvldiff(Head(levels), mhz))
    ELSE nearest(Tail(levels), mhz, result, diff)

\* The value the on-set callback stores for the value freq.
snap(levels, mhz) == nearest(levels, mhz, mhz, mhz + 1000000)

InitFreqCtl ==
    /\ NoDaemon
    /\ inst = <<>>
    /\ pidfile = [holder |-> 0, pid |-> -1]
    /\ th = <<>>
    /\ cyc = <<>>
    /\ opt = <<>>
    /\ lp = <<>>
    /\ rbuf = <<>>
    /\ fr = <<>>
    /\ mtx = <<>>
    /\ \E levels \in FreqLevels :
          fctl = [pc |-> "idle", levels |-> levels, value |-> 1000,
                  called |-> FALSE, depth |-> 0, written |-> 1000,
                  wrote |-> FALSE, runs |-> 0]

\* sysctl() with newp: SysctlValue::set() stores the value, then calls
\* this->onSet(*this).
WriteFreq ==
    /\ fctl.pc = "idle"
    /\ \E w \in Written :
          fctl' = [fctl EXCEPT !.pc = "onSet", !.value = w, !.written = w,
                               !.wrote = TRUE, !.runs = 0, !.depth = 1]
    /\ UNCHANGED <<daemon, inst, pidfile, th, cyc, opt, lp, rbuf, fr, mtx>>

\* Callback::operator ()(): return if the handle is in use, otherwise
\* mark it and call the function.
CallbackEnter ==
    /\ fctl.pc = "onSet"
    /\ fctl' = IF fctl.called
               THEN [fctl EXCEPT !.pc = "return", !.depth = fctl.depth - 1]
               ELSE [fctl EXCEPT !.pc = "callback", !.called = TRUE]
    /\ UNCHANGED <<daemon, inst, pidfile, th, cyc, opt, lp, rbuf, fr, mtx>>

\* The function registered by Emulator::Emulator(): ctl.set(result),
\* which stores the result and calls this->onSet(*this) again.
OnSet ==
    /\ fctl.pc = "callback"
    /\ fctl' = [fctl EXCEPT !.pc = "onSet",
                            !.value = snap(fctl.levels, get_mhz(fctl.value)),
                            !.runs = fctl.runs + 1,
                            !.depth = fctl.depth + 1]
    /\ UNCHANGED <<daemon, inst, pidfile, th, cyc, opt, lp, rbuf, fr, mtx>>

\* The nested set() has returned: this->called = false, and the set()
\* of the write returns.
CallbackLeave ==
    /\ fctl.pc = "return"
    /\ fctl' = [fctl EXCEPT !.pc = "idle", !.called = FALSE,
                            !.depth = fctl.depth - 1]
    /\ UNCHANGED <<daemon, inst, pidfile, th, cyc, opt, lp, rbuf, fr, mtx>>

NextFreqCtl ==
    \/ WriteFreq
    \/ CallbackEnter
    \/ OnSet
    \/ CallbackLeave

\* The hijacked process is scheduled: a call that can go on does.
SpecFreqCtl ==
    /\ InitFreqCtl /\ [][NextFreqCtl]_vars
    /\ WF_vars(CallbackEnter \/ OnSet \/ CallbackLeave)

(***************************************************************************)
(* libloadplay: Emulator::operator ()(), the replay of load frames.  Two   *)
(* cores that share the clock of core 0; cycles are in kcycles, as wide    *)
(* as cptime_t on a 64 bit platform, where they do not wrap.               *)
(***************************************************************************)
\* The most frames replayed.
MaxReplay == 2

\* The states of <sys/resource.h> besides CP_IDLE.
CP_USER == 0
CP_NICE == 1
CP_SYS == 2
CP_INTR == 3

\* Cycles assigned in the order of the states.
ByState == <<CP_USER, CP_NICE, CP_SYS, CP_INTR>>

\* for (auto state : {CP_INTR, CP_SYS, CP_USER, CP_NICE})
Priority == <<CP_INTR, CP_SYS, CP_USER, CP_NICE>>

EmuCores == {0, 1}

\* The recorded ticks of a core in a frame, per state; and the frame
\* durations in ms and the clocks in MHz tried.
RecTicks ==
    { [s \in States |-> 0],
      [s \in States |-> IF s = CP_IDLE THEN 0 ELSE s + 1],
      [s \in States |-> IF s = CP_IDLE THEN 6 ELSE IF s = CP_USER THEN 3
                         ELSE IF s = CP_INTR THEN 1 ELSE 0] }
\* The ticks of both cores in a frame: core 0 has at least the interrupts
\* of core 1.
FrameTicks ==
    { t \in [EmuCores -> RecTicks] : t[0][CP_INTR] >= t[1][CP_INTR] }

Durations == {1, 3}
Clocks == {0, 500, 1000}

\* The recorded clocks of a frame (FREQ_TRACKING).
RecClocks == {1000, 2000}

\* cycles[state] = runCycles * recTicks[state] / sumRecTicks, with
\* sumRecTicks += !sumRecTicks
recCycles(duration, recFreq, recTicks) ==
    LET sumRecTicks == IF Sum(recTicks, CPUSTATES) = 0 THEN 1
                       ELSE Sum(recTicks, CPUSTATES)
    IN  [s \in States |-> ((duration * recFreq) * recTicks[s]) \div sumRecTicks]

\* An idle state that gets its recorded cycles.
idle_recorded(kcycles, availableCycles) == kcycles[CP_IDLE]

\* cycles[CP_IDLE] = availableCycles
idle_cycles(kcycles, availableCycles) == availableCycles

\* The loop that assigns the available cycles to the states from the
\* k-th of Priority on; cycles holds the demand of every state.
RECURSIVE assign(_, _, _, _)
assign(kcycles, carry, availableCycles, k) ==
    IF k > Len(Priority)
    THEN [cycles |-> [kcycles EXCEPT
                        ![CP_IDLE] = idle_cycles(kcycles, availableCycles)],
          carryCycles |-> carry]
    ELSE LET state == Priority[k]
         IN  IF availableCycles >= kcycles[state]
             THEN assign(kcycles, [carry EXCEPT ![state] = 0],
                         availableCycles - kcycles[state], k + 1)
             ELSE assign([kcycles EXCEPT ![state] = availableCycles],
                         [carry EXCEPT ![state] =
                             kcycles[state] - availableCycles],
                         0, k + 1)

\* One core in one frame: what is added to its counters and carried on.
core_frame(core, duration, recTicks) ==
    LET rec    == recCycles(duration, core.recFreq, recTicks)
        kcycles == [s \in States |-> rec[s] + core.carryCycles[s]]
        a      == assign(kcycles, [s \in States |-> 0],
                         core.runFreq * duration, 1)
    IN  [rec |-> rec, demand |-> kcycles, run |-> a.cycles,
         carryCycles |-> a.carryCycles]

NoFrame ==
    [rec |-> [s \in States |-> 0], demand |-> [s \in States |-> 0],
     run |-> [s \in States |-> 0], carryIn |-> [s \in States |-> 0],
     carryCycles |-> [s \in States |-> 0], available |-> 0]

InitReplay ==
    /\ NoDaemon
    /\ inst = <<>>
    /\ pidfile = [holder |-> 0, pid |-> -1]
    /\ th = <<>>
    /\ cyc = <<>>
    /\ opt = <<>>
    /\ lp = <<>>
    /\ rbuf = <<>>
    /\ fctl = <<>>
    /\ mtx = <<>>
    /\ fr = [pc |-> "frame", frames |-> 0, duration |-> 0,
             cores |-> [c \in EmuCores |->
                          [runFreq |-> 1000, recFreq |-> 1000,
                           carryCycles |-> [s \in States |-> 0]]],
             sum |-> [c \in EmuCores |-> [s \in States |-> 0]],
             cp_times |-> [c \in EmuCores |-> [s \in States |-> 0]],
             last |-> [c \in EmuCores |-> NoFrame]]

\* A frame from scanf() to the commit cp_times.set(&sum[0], size).
ReplayFrame ==
    /\ fr.pc = "frame"
    /\ fr.frames < MaxReplay
    /\ \E duration \in Durations, ticks \in FrameTicks,
          recFreq \in RecClocks :
          LET f(c) == core_frame([fr.cores[c] EXCEPT !.recFreq = recFreq],
                                 duration, ticks[c])
              sum  == [c \in EmuCores |->
                         [s \in States |-> fr.sum[c][s] + f(c).run[s]]]
          IN  fr' = [fr EXCEPT
                       !.pc = "sleep",
                       !.frames = fr.frames + 1,
                       !.duration = duration,
                       !.cores = [c \in EmuCores |->
                                    [fr.cores[c] EXCEPT
                                       !.recFreq = recFreq,
                                       !.carryCycles = f(c).carryCycles]],
                       !.sum = sum,
                       !.cp_times = sum,
                       !.last = [c \in EmuCores |->
                                   [rec |-> f(c).rec, demand |-> f(c).demand,
                                    run |-> f(c).run,
                                    carryIn |-> fr.cores[c].carryCycles,
                                    carryCycles |-> f(c).carryCycles,
                                    available |->
                                       fr.cores[c].runFreq * duration]]]
    /\ UNCHANGED <<daemon, inst, pidfile, th, cyc, opt, lp, rbuf, fctl, mtx>>

\* The end of the frame: core.runFreq = core.freqCtl->get<mhz_t>(), the
\* clock the hijacked process has set meanwhile.
EndOfFrame ==
    /\ fr.pc = "sleep"
    /\ \E clock \in Clocks :
          fr' = [fr EXCEPT !.pc = "frame",
                           !.cores = [c \in EmuCores |->
                                        [fr.cores[c] EXCEPT
                                           !.runFreq = clock]]]
    /\ UNCHANGED <<daemon, inst, pidfile, th, cyc, opt, lp, rbuf, fctl, mtx>>

NextReplay ==
    \/ ReplayFrame
    \/ EndOfFrame

SpecReplay == InitReplay /\ [][NextReplay]_vars

(***************************************************************************)
(* The threads of a hijacked process inside libloadplay.  The main thread  *)
(* of the process (Host) runs Main::Main() and afterwards the intercepted  *)
(* sysctl() and sysctlnametomib(); the emulator thread (Emu) runs          *)
(* Emulator::operator ()().  Sysctls::mtx is a std::mutex, every           *)
(* SysctlValue::mtx a std::recursive_mutex.  A value is a sequence of      *)
(* numbers that is read and written one element at a time; mtx.committed   *)
(* holds the last value each writer has completed.                         *)
(*   mtx.pc        where each thread stands                                *)
(*   mtx.table     the owner of Sysctls::mtx                               *)
(*   mtx.lock      owner and depth of each SysctlValue::mtx                *)
(*   mtx.store     the values as they stand in memory                      *)
(*   mtx.call      the intercepted call the host is in                     *)
(*   mtx.read      what the last read of each thread returned, with the    *)
(*                 complete values the store held during the read          *)
(***************************************************************************)
MaxCommits == 2

Free == "free"

Host == "host"

Emu == "emu"

Values == {"cp_times", "freq", "features"}

\* The clock levels of the replayed machine and the clocks the host asks for.
SimLevels == <<500, 1000>>

HostWrites == {600, 900}

NoSysctl == [fn |-> "", mib |-> "", known |-> FALSE, newp |-> 0,
             buf |-> <<>>, seen |-> {}]

NoValueRead == [mib |-> "", buf |-> <<>>, seen |-> {}]

\* std::mutex::lock() returns once no thread owns the mutex.
lockable(owner, thread) == owner = Free

any_thread(m, thread) == TRUE

\* std::recursive_mutex::lock() returns once no other thread owns the mutex.
ownable(m, thread) == m.owner \in {Free, thread}

enter(m, thread) == [owner |-> thread, depth |-> m.depth + 1]

leave(m) ==
    IF m.depth = 1 THEN [owner |-> Free, depth |-> 0]
    ELSE [m EXCEPT !.depth = @ - 1]

kept(owner) == owner

\* The lock_guard of a try block is destroyed before the handler runs.
unwound(owner) == Free

Turn(new) ==
    /\ mtx' = new
    /\ UNCHANGED <<daemon, inst, pidfile, th, cyc, opt, lp, rbuf, fctl, fr>>

Goto(m, thread, label) == [m EXCEPT !.pc[thread] = label]

\* lock_guard const lock{this->mtx} in a method of Sysctls.
LockTable(thread, from, to) ==
    /\ mtx.pc[thread] = from
    /\ lockable(mtx.table, thread)
    /\ Turn([Goto(mtx, thread, to) EXCEPT !.table = thread])

\* The end of the scope of that lock_guard.
UnlockTable(thread, from, to) ==
    /\ mtx.pc[thread] = from
    /\ Turn([Goto(mtx, thread, to) EXCEPT !.table = Free])

InitSysctls ==
    /\ NoDaemon
    /\ inst = <<>>
    /\ pidfile = [holder |-> 0, pid |-> -1]
    /\ th = <<>>
    /\ cyc = <<>>
    /\ opt = <<>>
    /\ lp = <<>>
    /\ rbuf = <<>>
    /\ fctl = <<>>
    /\ fr = <<>>
    /\ mtx = [startup |-> TRUE, table |-> Free,
              lock |-> [v \in Values |-> [owner |-> Free, depth |-> 0]],
              pc |-> [t \in {Host, Emu} |->
                         IF t = Host THEN "ctor" ELSE "unborn"],
              added |-> {},
              store |-> [v \in Values |->
                            IF v = "cp_times" THEN <<>> ELSE <<0>>],
              committed |-> [v \in Values |->
                                IF v = "cp_times" THEN <<>> ELSE <<0>>],
              call |-> NoSysctl,
              read |-> [t \in {Host, Emu} |-> NoValueRead],
              sum |-> <<>>, at |-> 0, frames |-> 0]

\* Main::Main() hands a line of the load record to Sysctls::addValue():
\* kern.cp_times is in the table, dev.cpu.0.freq inherits from its base.
AddValue ==
    \/ /\ mtx.pc[Host] = "ctor"
       /\ \E name \in {"cp_times", "freq"} \ mtx.added :
              Turn([Goto(mtx, Host, "add_lock") EXCEPT
                       !.call = [NoSysctl EXCEPT !.fn = "addValue",
                                                 !.mib = name,
                                                 !.known = name = "cp_times"]])
    \/ LockTable(Host, "add_lock", "add_at")
    \/ /\ mtx.pc[Host] = "add_at"
       /\ mtx.call.known
       /\ Turn(Goto(mtx, Host, "add_set"))
    \/ /\ mtx.pc[Host] = "add_set"
       /\ ownable(mtx.lock["cp_times"], Host)
       /\ Turn([Goto(mtx, Host, "ctor") EXCEPT
                   !.store["cp_times"] = [c \in 1 .. Cardinality(EmuCores) |-> 0],
                   !.committed["cp_times"] = [c \in 1 .. Cardinality(EmuCores) |-> 0],
                   !.added = @ \cup {"cp_times"},
                   !.table = Free])
    \/ /\ mtx.pc[Host] = "add_at"
       /\ ~mtx.call.known
       /\ Turn([Goto(mtx, Host, "base_lock") EXCEPT
                   !.table = unwound(mtx.table)])
    \/ LockTable(Host, "base_lock", "base_at")
    \/ UnlockTable(Host, "base_at", "inherit_lock")
    \/ LockTable(Host, "inherit_lock", "inherit")
    \/ /\ mtx.pc[Host] = "inherit"
       /\ ownable(mtx.lock["freq"], Host)
       /\ Turn([Goto(mtx, Host, "ctor") EXCEPT
                   !.store["freq"] = <<SimLevels[Len(SimLevels)]>>,
                   !.committed["freq"] = <<SimLevels[Len(SimLevels)]>>,
                   !.added = @ \cup {"freq"},
                   !.table = Free])

\* Main::Main() creates the Emulator, which takes its sum from
\* kern.cp_times, starts the thread and clears sysctl_startup.
StartThread ==
    /\ mtx.pc[Host] = "ctor"
    /\ mtx.added = {"cp_times", "freq"}
    /\ Turn([mtx EXCEPT !.pc = [t \in {Host, Emu} |->
                                   IF t = Host THEN "idle"
                                   ELSE "features_lock"],
                        !.sum = mtx.store["cp_times"],
                        !.call = NoSysctl,
                        !.startup = FALSE])

\* The host enters sysctl() to read a value or to set the clock.
SysctlCall ==
    /\ mtx.pc[Host] = "idle"
    /\ \E mib \in {"cp_times", "freq"}, newp \in {0} \cup HostWrites :
           /\ newp # 0 => mib = "freq"
           /\ Turn([Goto(mtx, Host, "index_lock") EXCEPT
                       !.call = [NoSysctl EXCEPT
                                    !.fn = "sysctl", !.mib = mib,
                                    !.known = TRUE, !.newp = newp,
                                    !.seen = {mtx.committed[mib]}]])

\* sysctl(): sysctls[mib], then value.get() or value.set() with its onSet.
HostSysctl ==
    \/ LockTable(Host, "index_lock", "index_at")
    \/ UnlockTable(Host, "index_at",
                   IF mtx.call.newp = 0 THEN "get_lock" ELSE "set_lock")
    \/ /\ mtx.pc[Host] = "get_lock"
       /\ ownable(mtx.lock[mtx.call.mib], Host)
       /\ Turn([Goto(mtx, Host, "copy") EXCEPT
                   !.lock[mtx.call.mib] = enter(@, Host)])
    \/ /\ mtx.pc[Host] = "copy"
       /\ Len(mtx.call.buf) < Len(mtx.store[mtx.call.mib])
       /\ Turn([mtx EXCEPT
                   !.call.buf = Append(@, mtx.store[mtx.call.mib][Len(@) + 1])])
    \/ /\ mtx.pc[Host] = "copy"
       /\ Len(mtx.call.buf) >= Len(mtx.store[mtx.call.mib])
       /\ Turn([Goto(mtx, Host, "idle") EXCEPT
                   !.lock[mtx.call.mib] = leave(@),
                   !.read[Host] = [mib |-> mtx.call.mib,
                                   buf |-> mtx.call.buf,
                                   seen |-> mtx.call.seen],
                   !.call = NoSysctl])
    \/ /\ mtx.pc[Host] = "set_lock"
       /\ ownable(mtx.lock[mtx.call.mib], Host)
       /\ Turn([Goto(mtx, Host, "set_str") EXCEPT
                   !.lock[mtx.call.mib] = enter(@, Host)])
    \/ /\ mtx.pc[Host] = "set_str"
       /\ Turn([Goto(mtx, Host, "on_set") EXCEPT
                   !.lock[mtx.call.mib] = enter(@, Host),
                   !.store[mtx.call.mib] = <<mtx.call.newp>>])
    \/ /\ mtx.pc[Host] = "on_set"
       /\ Turn([Goto(mtx, Host, "set_done") EXCEPT
                   !.store[mtx.call.mib] = <<snap(SimLevels, mtx.call.newp)>>,
                   !.committed[mtx.call.mib] =
                       <<snap(SimLevels, mtx.call.newp)>>])
    \/ /\ mtx.pc[Host] = "set_done"
       /\ Turn([Goto(mtx, Host, "idle") EXCEPT
                   !.lock[mtx.call.mib] = leave(leave(@)),
                   !.call = NoSysctl])

\* The host enters sysctlnametomib() with a name of the table, with an
\* instance the record does not define or with a name of the system.
MibCall ==
    /\ mtx.pc[Host] = "idle"
    /\ \E known \in BOOLEAN :
           Turn([Goto(mtx, Host, "mib_lock") EXCEPT
                    !.call = [NoSysctl EXCEPT !.fn = "sysctlnametomib",
                                              !.known = known]])

\* sysctlnametomib(): Sysctls::getMib(), then Sysctls::getBaseMib().
HostNameToMib ==
    \/ LockTable(Host, "mib_lock", "mib_at")
    \/ UnlockTable(Host, "mib_at",
                   IF mtx.call.known THEN "idle" ELSE "basemib_lock")
    \/ LockTable(Host, "basemib_lock", "basemib_at")
    \/ UnlockTable(Host, "basemib_at", "idle")

\* Emulator::operator ()(): the features, then per frame the commit of
\* the sum to kern.cp_times and the read of the clock.
EmuThread ==
    \/ LockTable(Emu, "features_lock", "features_at")
    \/ UnlockTable(Emu, "features_at", "features_get")
    \/ /\ mtx.pc[Emu] = "features_get"
       /\ ownable(mtx.lock["features"], Emu)
       /\ Turn(Goto(mtx, Emu, "frame"))
    \/ /\ mtx.pc[Emu] = "frame"
       /\ mtx.frames < MaxCommits
       /\ Turn([Goto(mtx, Emu, "commit_lock") EXCEPT
                   !.sum = [c \in DOMAIN mtx.sum |-> mtx.sum[c] + 1]])
    \/ /\ mtx.pc[Emu] = "frame"
       /\ mtx.frames >= MaxCommits
       /\ Turn(Goto(mtx, Emu, "exit"))
    \/ /\ mtx.pc[Emu] = "commit_lock"
       /\ ownable(mtx.lock["cp_times"], Emu)
       /\ Turn([Goto(mtx, Emu, "commit") EXCEPT
                   !.lock["cp_times"] = enter(@, Emu),
                   !.at = 1])
    \/ /\ mtx.pc[Emu] = "commit"
       /\ mtx.at <= Len(mtx.sum)
       /\ Turn([mtx EXCEPT !.store["cp_times"][mtx.at] = mtx.sum[mtx.at],
                           !.at = @ + 1])
    \/ /\ mtx.pc[Emu] = "commit"
       /\ mtx.at > Len(mtx.sum)
       /\ Turn([Goto(mtx, Emu, "freq_get") EXCEPT
                   !.lock["cp_times"] = leave(@),
                   !.committed["cp_times"] = mtx.sum,
                   !.call.seen = IF mtx.call.fn = "sysctl"
                                    /\ mtx.call.mib = "cp_times"
                                 THEN @ \cup {mtx.sum} ELSE @])
    \/ /\ mtx.pc[Emu] = "freq_get"
       /\ ownable(mtx.lock["freq"], Emu)
       /\ Turn([Goto(mtx, Emu, "frame") EXCEPT
                   !.read[Emu] = [mib |-> "freq",
                                  buf |-> mtx.store["freq"],
                                  seen |-> {mtx.committed["freq"]}],
                   !.frames = @ + 1])

NextSysctls ==
    \/ AddValue
    \/ StartThread
    \/ SysctlCall
    \/ HostSysctl
    \/ MibCall
    \/ HostNameToMib
    \/ EmuThread

\* A thread that can take a step is scheduled, and a thread that waits for
\* a mutex gets it when it is free again and again: the host sleeps
\* between its calls and the emulator between its frames.  The host need
\* not call.
SpecSysctls ==
    /\ InitSysctls
    /\ [][NextSysctls]_vars
    /\ SF_vars(AddValue \/ StartThread \/ HostSysctl \/ HostNameToMib)
    /\ SF_vars(EmuThread)

(***************************************************************************)
(* The properties of the policy step, checked against every cycle of       *)
(* Spec.  obs holds what the last update_freq() did per controlling core.  *)
(***************************************************************************)
\* The controlling cores the last cycle has dealt with.
Seen == { c \in DOMAIN obs : obs[c].seen }

\* The load of a core recomputed from the two ring slots the last
\* update_cp_times() compared: the newest one and the oldest one.
RawLoad(c) ==
    LET new == g.cp_times[((g.sample + g.samples - 1) % g.samples) * g.ncpu + c]
        old == g.cp_times[g.sample * g.ncpu + c]
        all == Sum(new, CPUSTATES) - Sum(old, CPUSTATES)
        idle == new[CP_IDLE] - old[CP_IDLE]
    IN  IF all = 0 THEN 0 ELSE 1024 - (idle * 1024) \div all

RECURSIVE Highest(_)
Highest(S) ==
    LET x == CHOOSE y \in S : TRUE
    IN  IF S = {x} THEN x ELSE Max(x, Highest(S \ {x}))

\* C1: every frequency the policy step computes for writing lies within
\* [min, max] of its core group: a wanted frequency below min is replaced
\* by min, one above max by max, whatever the load, target and mode; and
\* the clock of the group is inside the bounds after the cycle.
C1_WrittenWithinLimits ==
    \A c \in Seen :
        LET o == obs[c]
            core == g.cores[c]
        IN  /\ core.min <= o.newfreq /\ o.newfreq <= core.max
            /\ o.wantfreq < core.min => o.newfreq = core.min
            /\ o.wantfreq > core.max => o.newfreq = core.max
            /\ (core.min <= o.wantfreq /\ o.wantfreq <= core.max)
                  => o.newfreq = o.wantfreq
            /\ (pc = "loop" /\ exitcode = RUNNING) => sys.freq[c] = o.newfreq

\* A cycle wrote min for a wanted frequency below min, in adaptive mode.
C1_Witness ==
    \E c \in Seen :
        /\ obs[c].wantfreq < g.cores[c].min
        /\ obs[c].writes = 1
        /\ g.target # 0
        /\ pc = "loop"
        /\ sys.freq[c] = g.cores[c].min

\* C2: after the load sampling step of a cycle the load held at the
\* controlling core of a group is the maximum of the loads of the cores
\* of the group in that cycle, not their sum or mean.
C2_GroupLoadIsMax ==
    (pc = "loop" /\ cycles > 0 /\ exitcode = RUNNING) =>
        \A c \in Controllers :
            /\ g.cores[c].load = Highest({ RawLoad(m) : m \in Group(c) })
            /\ \A m \in Group(c) \ {c} : g.cores[m].load = RawLoad(m)

\* A group of two cores whose loads differ and are both above zero: the
\* group load is the higher one.
C2_Witness ==
    /\ pc = "loop" /\ cycles > 0 /\ exitcode = RUNNING
    /\ \E c \in Controllers : \E m \in Group(c) \ {c} :
          /\ RawLoad(c) = 512
          /\ RawLoad(m) = 1024
          /\ g.cores[c].load = 1024

\* C3: tick gains with 0 <= idle <= all give a load in [0, 1024], so the
\* load of every core is in [0, 1024] in every state, and the load of a
\* group expressed in MHz never exceeds the clock sampled for the group.
C3_LoadInRange ==
    /\ \A all \in 0 .. 6 : \A idle \in 0 .. all :
          0 <= cp_load(all, idle) /\ cp_load(all, idle) <= 1024
    /\ \A c \in DOMAIN g.cores :
          0 <= g.cores[c].load /\ g.cores[c].load <= 1024
    /\ \A c \in Seen :
          /\ 0 <= obs[c].load /\ obs[c].load <= 1024
          /\ (obs[c].oldfreq * obs[c].load) \div 1024 <= obs[c].oldfreq

\* A cycle has seen a fully loaded group: its load in MHz is the clock.
C3_Witness ==
    /\ pc = "loop"
    /\ \E c \in Seen :
          /\ obs[c].load = 1024 /\ RawLoad(c) = 1024
          /\ obs[c].oldfreq = 1000
          /\ (obs[c].oldfreq * obs[c].load) \div 1024 = 1000

\* C4: in adaptive mode (target load not 0) the wanted frequency is the
\* load in MHz (clock * load / 1024) times 1024 over the target load,
\* rounded down; with a target load of 512 and a steady load of 500 MHz
\* at a clock of 1000 MHz the wanted frequency is 1000 MHz and the clock
\* stays as it is.
C4_AdaptiveWanted ==
    \A c \in Seen :
        LET o == obs[c]
        IN  g.target # 0 =>
              /\ o.wantfreq * g.target <= o.oldfreq * o.load
              /\ o.oldfreq * o.load < (o.wantfreq + 1) * g.target
              /\ (g.target = 512 /\ o.load = 512 /\ o.oldfreq = 1000) =>
                    /\ o.wantfreq = 1000
                    /\ o.writes = 0
                    /\ sys.freq[c] = 1000

\* The fixed point: target load 512, load 512 of 1024 at 1000 MHz.
C4_Witness ==
    \E c \in Seen :
        /\ g.target = 512 /\ obs[c].load = 512 /\ obs[c].oldfreq = 1000
        /\ obs[c].wantfreq = 1000
        /\ pc = "loop"

\* C5: in fixed mode (target load 0 for the current power line state) the
\* wanted frequency is the target frequency configured for that state,
\* whatever the ticks and the clock; the new frequency is the target
\* frequency within [min, max], and it is the clock after the cycle.
C5_FixedWanted ==
    \A c \in Seen :
        LET o == obs[c]
        IN  g.target = 0 =>
              /\ g.targets[g.acline] = 0
              /\ o.wantfreq = g.target_freqs[g.acline]
              /\ o.newfreq = Min(Max(g.target_freqs[g.acline],
                                      g.cores[c].min), g.cores[c].max)
              /\ (pc = "loop" /\ exitcode = RUNNING) => sys.freq[c] = o.newfreq

\* A fixed 800 MHz were wanted while the clock was at another value and
\* the group loaded, and 800 MHz were written.
C5_Witness ==
    \E c \in Seen :
        /\ g.target = 0
        /\ obs[c].wantfreq = 800
        /\ obs[c].oldfreq # 800
        /\ obs[c].load > 0
        /\ pc = "loop"
        /\ sys.freq[c] = 800

\* C6: in a cycle the clock of a group is written only if the new
\* frequency differs from the clock sampled for the group in that cycle,
\* at most once per group; a steady state causes no write.
C6_WriteOnlyOnChange ==
    \A c \in DOMAIN obs :
        LET o == obs[c]
        IN  /\ o.writes <= 1
            /\ o.writes = 1 => (o.seen /\ o.oldfreq # o.newfreq)
            /\ (o.seen /\ o.oldfreq = o.newfreq) => o.writes = 0
            /\ (o.seen /\ o.oldfreq # o.newfreq) => o.writes = 1

\* The second cycle in a row that found the clock where it wants it.
C6_Witness ==
    \E c \in Seen :
        /\ cycles >= 2
        /\ obs[c].oldfreq = obs[c].newfreq
        /\ obs[c].writes = 0
        /\ obs[c].oldfreq # 1000
        /\ pc = "loop"

\* C7: 2 cores in one group, 4 samples, power line online with a target
\* load of 384 and only idle ticks: after `samples` cycles of the main
\* loop the clock of the group is at min, and stays there in the cycles
\* that follow.
C7_IdleConverges ==
    (pc \in {"loop", "sleep"} /\ cycles >= g.samples) =>
        \A c \in Controllers :
            /\ sys.freq[c] = g.cores[c].min
            /\ g.target = 384
            /\ Group(c) = {0, 1}

\* The run has started busy, passed a clock between max and min, and is
\* at min after `samples` cycles.
C7_Witness ==
    /\ pc = "loop" /\ cycles = g.samples
    /\ g.samples = IdleSamples
    /\ sys.freq[0] = 500
    /\ obs[0].oldfreq = 500 /\ obs[0].writes = 0
    /\ g.acline = ONLINE

\* C8: with throttling on, a temperature at or above the critical
\* threshold makes the new frequency of the group its min, whatever the
\* load derived frequency is.
C8_CriticalForcesMin ==
    (th.pc = "done" /\ th.temp >= th.crit) => th.newfreq = th.min

\* At the critical temperature with a load derived frequency at max.
C8_Witness ==
    /\ th.pc = "done"
    /\ th.temp = th.crit
    /\ th.loadfreq = th.max
    /\ th.newfreq = th.min

\* C9: with throttling on, a temperature equal to the high threshold
\* leaves the load derived frequency as it is; between high and critical
\* the ceiling does not rise with the temperature, goes from max to min
\* and is never below min, and the new frequency is within [min, ceiling].
C9_CeilingFalls ==
    LET c(t) == ceiling(t, th.high, th.crit, th.min, th.max)
        range == th.high .. th.crit
    IN  /\ (th.pc = "done" /\ th.temp = th.high) => th.newfreq = th.loadfreq
        /\ c(th.high) = th.max
        /\ c(th.crit) = th.min
        /\ \A t \in range : th.min <= c(t) /\ c(t) <= th.max
        /\ \A t \in range \ {th.crit} : c(t + 1) <= c(t)
        /\ (th.pc = "done" /\ th.temp \in range) =>
              /\ th.min <= th.newfreq
              /\ th.newfreq <= c(th.temp)
              /\ th.newfreq = Max(th.min, Min(th.loadfreq, c(th.temp)))

\* Half way between the thresholds a load derived frequency at max has
\* been cut to a ceiling strictly between min and max.
C9_Witness ==
    /\ th.pc = "done"
    /\ th.high < th.temp /\ th.temp < th.crit
    /\ th.loadfreq = th.max
    /\ th.min < th.newfreq /\ th.newfreq < th.max
    /\ th.newfreq = ceiling(th.temp, th.high, th.crit, th.min, th.max)

LifeCycle == <<"armed", "locked", "probed", "daemonized", "pidwritten",
               "loop", "restored", "released">>

\* The place of a step in the life cycle.
Place(step) == CHOOSE i \in DOMAIN LifeCycle : LifeCycle[i] = step

Done(step) == \E i \in DOMAIN done : done[i] = step

\* Step a was completed, and before step b if that was completed too.
Before(a, b) ==
    \A j \in DOMAIN done : done[j] = b => \E i \in 1 .. (j - 1) : done[i] = a

\* C11: the steps of the life cycle are taken in this order: the signal
\* handlers are armed (first of all, before the pidfile is locked), the
\* pidfile is locked, the clock of every group is probed, the process
\* daemonizes (not in foreground mode), the process id is written, the
\* main loop runs, shutdown restores and releases.  No policy write
\* happens before the lock is held and the probe has succeeded, and the
\* process id is written only after detaching.
C11_LifeCycleOrder ==
    /\ Len(done) >= 1 /\ done[1] = "armed"
    /\ \A i, j \in DOMAIN done : i < j => Place(done[i]) < Place(done[j])
    /\ Before("locked", "probed")
    /\ Before("probed", "daemonized")
    /\ Before("probed", "pidwritten")
    /\ Before("pidwritten", "loop")
    /\ Done("daemonized") => ~g.foreground
    /\ Done("pidwritten") => (g.foreground \/ Before("daemonized", "pidwritten"))
    /\ lock = "written" => Done("pidwritten")
    /\ cycles > 0 => (Done("loop") /\ Done("locked") /\ Done("probed"))
    /\ \A c \in DOMAIN obs : obs[c].writes > 0 => cycles > 0
    /\ (\E c \in DOMAIN sys.freq : sys.freq[c] \notin InitFreqs) => Done("probed")

\* A daemonized run that went through the whole life cycle with a policy
\* write and ended on a signal.
C11_Witness ==
    /\ pc = "exit"
    /\ exitcode = OK
    /\ done = LifeCycle
    /\ \E c \in DOMAIN obs : obs[c].writes = 1

\* C11 as stated: the signal handlers are armed after daemonizing, that
\* is not before the pidfile is locked and the clocks are probed.
C11_ArmedAfterProbe ==
    Done("armed") => (Before("locked", "armed") /\ Before("probed", "armed"))

\* C12: at shutdown every core group gets one best effort write that sets
\* its clock to the maximum of the group (not to the clock it had before
\* the daemon started); a write that fails leaves that clock as it is and
\* prevents neither the writes for the other groups nor the release of
\* the pidfile.
C12_RestoreMax ==
    [][/\ pc = "~FreqGuard" =>
            /\ pc' \in {"~FreqGuard", "~Pidfile"}
            /\ \A c \in DOMAIN sys.freq :
                  IF c \in Controllers
                  THEN sys.freq'[c] \in {sys.freq[c], g.cores[c].max}
                  ELSE sys.freq'[c] = sys.freq[c]
            /\ lock' = lock
       /\ pc = "~Pidfile" =>
            (pc' = "~Pidfile" \/ (pc' = "exit" /\ lock' = "free"))
      ]_vars

\* After a cycle lowered the clocks the write for core 0 failed, core 1
\* was set to its maximum all the same and the pidfile was released.
C12_Witness ==
    /\ pc = "exit"
    /\ Done("restored") /\ Done("released")
    /\ lock = "free"
    /\ {0, 1} \subseteq Controllers
    /\ sys.freq[0] < g.cores[0].max
    /\ sys.freq[1] = g.cores[1].max
    /\ obs[1].newfreq < g.cores[1].max

\* C12 as stated: every write of the shutdown that succeeds sets the
\* clock the group had before the daemon started.
C12_RestoresProbed ==
    [][pc = "~FreqGuard" =>
         \A c \in Controllers :
             sys.freq'[c] \in ({sys.freq[c]} \cup InitFreqs)
      ]_vars

\* C13: whenever the process exits after it locked the pidfile (on a
\* signal, a failed probe, a failed daemon(), a failed write of the
\* process id or a fatal error in the main loop) the pidfile was released
\* as the last step; and whenever it exits after the probe succeeded the
\* clocks were restored before the pidfile was released.
C13_ReleasedOnExit ==
    /\ (pc = "exit" /\ Done("locked")) =>
          /\ lock = "free"
          /\ done[Len(done)] = "released"
    /\ (pc = "exit" /\ Done("probed")) => Before("restored", "released")
    /\ Done("released") => pc = "exit"
    /\ (Done("restored") /\ ~Done("released")) => (pc = "~Pidfile" /\ lock # "free")
    /\ (Done("locked") /\ ~Done("released")) => lock # "free"

\* A fatal error in the main loop: restored, then released, then exit.
C13_Witness ==
    /\ pc = "exit"
    /\ exitcode = ESYSCTL
    /\ cycles > 0
    /\ Done("loop")
    /\ Before("restored", "released")
    /\ lock = "free"

\* C14: a signal that was recorded is never lost or reset; once it is
\* recorded the main loop starts no further sleep, so at most the cycle
\* under way is finished, and the process goes on to shut down and exit;
\* without a recorded signal and without a fatal error the loop is not
\* left.
C14_SignalEndsLoop ==
    /\ [][/\ g.signal # 0 => g'.signal # 0
          /\ (g.signal # 0 /\ pc # "sleep") => pc' # "sleep"
          /\ cycles' # cycles =>
                (pc = "sleep" /\ pc' # "sleep" /\ cycles' = cycles + 1)
          /\ (g.signal # 0 /\ pc = "loop" /\ pc' # pc) =>
                (pc' = "~FreqGuard" /\ exitcode' = OK)
         ]_vars
    /\ [](exitcode = OK => (g.signal # 0 /\ Done("pidwritten")))
    /\ []((Done("loop") /\ pc \in {"~FreqGuard", "~Pidfile", "exit"}) =>
             (g.signal # 0 \/ exitcode \in {ESYSCTL, EFORBIDDEN}))
    /\ (g.signal # 0) ~> (pc = "exit" /\ g.signal # 0)

\* A signal arrived during a sleep: the cycle was finished, the loop
\* left and the process has shut down.
C14_Witness ==
    /\ pc = "exit"
    /\ exitcode = OK
    /\ g.signal = 15
    /\ cycles = 1
    /\ done[Len(done)] = "released"

(***************************************************************************)
(* The cyclic timer                                                        *)
(***************************************************************************)

\* A step that is a zero-argument retry of the timer.
IsRetry ==
    /\ cyc.pc = "awake"
    /\ cyc'.op = "retry"
    /\ cyc'.sleeps = cyc.sleeps
    /\ cyc'.now = cyc.now
    /\ cyc' # cyc

\* What a retry does: see C15.
RetryEffect ==
    /\ cyc'.clk = cyc.clk
    /\ (cyc.clk <= cyc.now) => (cyc'.pc = "awake" /\ cyc'.ret)
    /\ (cyc'.pc = "usleep") =>
          (cyc'.wake - cyc.now =
              ((cyc.clk - cyc.now) \div TicksPerUs) * TicksPerUs)
    /\ (cyc'.pc = "awake") =>
          (cyc'.ret /\ cyc.clk - cyc.now < TicksPerUs)

\* A sleep that completes ends no earlier than planned.
WakeEffect ==
    (cyc.pc = "usleep" /\ cyc'.pc = "awake" /\ cyc'.ret) =>
        (cyc'.now >= cyc.wake)

\* C15: a zero-argument retry after an interrupted sleep leaves the stored
\* deadline unchanged; it returns success at once if the deadline has
\* passed and otherwise sleeps for the time remaining until the deadline
\* (in whole microseconds), so the planned wake-up time stays within one
\* microsecond of the deadline whatever the number of interruptions and
\* retries, and a sleep that completes ends no earlier than planned.
C15_RetryKeepsDeadline ==
    /\ [][(IsRetry => RetryEffect) /\ WakeEffect]_vars
    /\ [](cyc.pc = "usleep" =>
             (cyc.wake <= cyc.clk /\ cyc.clk - cyc.wake < TicksPerUs))

\* Two interruptions within one cycle, each followed by a retry, the last
\* of which sleeps up to the deadline of the cycle.
C15_Witness ==
    /\ cyc.op = "retry"
    /\ cyc.sleeps = 1
    /\ cyc.events >= 2
    /\ cyc.pc = "usleep"
    /\ cyc.wake = cyc.born + cyc.sum

\* C16: after k timed sleeps, with processing delays, interruptions and
\* retries in between, the stored deadline is the construction time plus
\* the sum of the k intervals; only a timed sleep changes the deadline and
\* it advances it by exactly its interval.
C16_NoDrift ==
    /\ [](cyc.clk = cyc.born + cyc.sum)
    /\ [][(cyc'.clk # cyc.clk) =>
             (/\ cyc'.sleeps = cyc.sleeps + 1
              /\ cyc'.clk = cyc.clk + cyc'.cycleTime)]_vars

\* Three timed sleeps with a delay that overran a deadline and an
\* interrupted sleep that was retried.
C16_Witness ==
    /\ cyc.sleeps >= 3
    /\ cyc.sum >= 15
    /\ cyc.events >= 2
    /\ cyc.op = "retry"
    /\ cyc.clk = cyc.born + cyc.sum

(***************************************************************************)
(* Discovery of the frequency controllers                                  *)
(***************************************************************************)

\* init() has returned and assigned every Core::controller.
Discovered == pc # "init" /\ exitcode # ENOFREQ

\* No dev.cpu.N.freq has been read or written: no observation of a clock
\* was made, no clock differs from its initial value, no probe was run.
FreqUntouched ==
    /\ obs = <<>>
    /\ \A c \in 0 .. (sys.ncpu - 1) : sys.freq[c] \in InitFreqs
    /\ ~Done("probed")

\* C17: if core 0 has no frequency handle, init() ends the process with
\* ENOFREQ before any frequency is read or written; if core 0 has one,
\* ENOFREQ never occurs, and a later core without a handle is assigned to
\* a group that exists already (a controller below it that has a handle).
C17_NoFreqControl ==
    /\ (pc # "init" /\ ~sys.hasfreq[0]) =>
          (pc = "exit" /\ exitcode = ENOFREQ /\ FreqUntouched)
    /\ sys.hasfreq[0] => exitcode # ENOFREQ
    /\ Discovered =>
          \A c \in 1 .. (sys.ncpu - 1) :
             ~sys.hasfreq[c] =>
                /\ g.cores[c].controller \in 0 .. (c - 1)
                /\ sys.hasfreq[g.cores[c].controller]

\* The process has ended with ENOFREQ on a machine whose first core has no
\* handle although a later core has one.
C17_Witness ==
    /\ pc = "exit"
    /\ exitcode = ENOFREQ
    /\ ~sys.hasfreq[0]
    /\ \E c \in 1 .. (sys.ncpu - 1) : sys.hasfreq[c]

\* The assignment of controllers.
Assignment == [c \in 0 .. (sys.ncpu - 1) |-> g.cores[c].controller]

\* C18: after discovery the controller of every core is the highest core
\* at or below it that has its own frequency handle; hence every core is
\* in exactly one group, every group is a contiguous range of cores that
\* begins at its leader, every leader controls itself, and the assignment
\* never changes afterwards.
C18_Groups ==
    /\ [](Discovered =>
            \A c \in 0 .. (sys.ncpu - 1) :
               LET l == g.cores[c].controller
               IN  /\ l = Highest({ d \in 0 .. c : sys.hasfreq[d] })
                   /\ Cardinality({ k \in Controllers : c \in Group(k) }) = 1
                   /\ g.cores[l].controller = l
                   /\ Group(l) = l .. Highest(Group(l)))
    /\ [][Discovered => (Discovered' /\ Assignment' = Assignment)]_vars

\* Four cores in two groups of two, after a cycle of the main loop.
C18_Witness ==
    /\ Discovered
    /\ sys.ncpu = 4
    /\ Assignment = [c \in 0 .. 3 |-> IF c < 2 THEN 0 ELSE 2]
    /\ Seen = {0, 2}
    /\ pc = "exit"

(***************************************************************************)
(* Fatal failures                                                          *)
(***************************************************************************)

\* The process is leaving run_daemon() or has left main().
Leaving == pc \in {"~FreqGuard", "~Pidfile", "exit"}

\* A step of the main loop in which a frequency write fails with EPERM.
WriteDenied == pc = "sleep" /\ errno' = "EPERM"

\* C19: a frequency write of the main loop that fails with EPERM ends the
\* loop at once with the exit code EFORBIDDEN, which is neither OK nor
\* ESYSCTL; no further cycle is run, and the process still makes its
\* restoration attempt and releases the pidfile lock before it ends.
C19_PrivilegeLossFatal ==
    /\ [][WriteDenied => (exitcode' = EFORBIDDEN /\ pc' = "~FreqGuard")]_vars
    /\ [][(exitcode = EFORBIDDEN) =>
             (cycles' = cycles /\ exitcode' = EFORBIDDEN)]_vars
    /\ []((exitcode = EFORBIDDEN) =>
            (Leaving /\ EFORBIDDEN \notin {OK, ESYSCTL}))
    /\ []((exitcode = EFORBIDDEN /\ pc = "exit") =>
            (Done("restored") /\ Done("released") /\ lock = "free"))
    /\ (exitcode = EFORBIDDEN) ~> (pc = "exit" /\ exitcode = EFORBIDDEN)

\* The write of the second cycle was denied and the process has ended.
C19_Witness ==
    /\ pc = "exit"
    /\ exitcode = EFORBIDDEN
    /\ errno = "EPERM"
    /\ cycles = 2
    /\ Done("restored")
    /\ lock = "free"

\* run_daemon() is being left, or was left, by an exception.
Unwound == pc = "~Pidfile" \/ (pc = "exit" /\ Done("released"))

\* The pidfile lock was not acquired.
LockFailed == Unwound /\ ~Done("locked")

\* The lock was acquired and the FreqGuard probe failed.
ProbeFailed == Unwound /\ Done("locked") /\ ~Done("probed")

\* The probe succeeded and daemon() failed.
DaemonFailed ==
    /\ Leaving
    /\ Done("probed")
    /\ ~g.foreground
    /\ ~Done("daemonized")

\* C20: a failure to acquire the pidfile lock, a failure of the start-up
\* frequency probe and a failure to daemonize each end the process before
\* the main loop has run a cycle, with non-zero exit codes that differ
\* between the three failures; a probe that fails for lack of privilege
\* (EPERM) gives the exit code EFORBIDDEN, not ESYSCTL.
C20_StartupFailures ==
    /\ (LockFailed \/ ProbeFailed \/ DaemonFailed) =>
          (cycles = 0 /\ ~Done("loop") /\ exitcode \notin {OK, RUNNING})
    /\ LockFailed => exitcode \in {ECONFLICT, EPID}
    /\ ProbeFailed => exitcode \in {ESYSCTL, EFORBIDDEN}
    /\ DaemonFailed => exitcode = EDAEMON
    /\ {ECONFLICT, EPID} \cap {ESYSCTL, EFORBIDDEN, EDAEMON} = {}
    /\ EDAEMON \notin {ESYSCTL, EFORBIDDEN}
    /\ (ProbeFailed /\ errno = "EPERM") => exitcode = EFORBIDDEN

\* The write of the probe was denied and the process has ended.
C20_Witness ==
    /\ ProbeFailed
    /\ errno = "EPERM"
    /\ pc = "exit"
    /\ lock = "free"

(***************************************************************************)
(* The AC line state                                                       *)
(***************************************************************************)

\* A step that is a cycle of the main loop in which hw.acpi.acline was
\* read: sys.acline is what that read returned.
AclineCycle == pc = "sleep" /\ cycles' = cycles + 1 /\ g' # g

\* The line state a read of hw.acpi.acline stands for.
LineState(read) == IF read.ok THEN read.value ELSE UNKNOWN

\* What a cycle does with the line state: see C21.
AclineEffect ==
    /\ g'.acline = LineState(sys'.acline)
    /\ g'.target = g.targets[g'.acline]
    /\ g'.target_freq = g.target_freqs[g'.acline]
    /\ g'.targets = g.targets /\ g'.target_freqs = g.target_freqs
    /\ (errno' = "0" /\ exitcode' # ABORTED) =>
          (pc' = "loop" /\ exitcode' = RUNNING)
    /\ \A c \in Controllers :
          obs'[c].seen =>
             obs'[c].wantfreq = want_freq(obs'[c].oldfreq, obs'[c].load,
                                          g.targets[g'.acline],
                                          g.target_freqs[g'.acline])

\* C21: every cycle reads the AC line state anew; a failed read (the
\* tunable is absent or cannot be read) gives UNKNOWN and does not end the
\* daemon; the target load and target frequency the policy uses in the
\* cycle are those configured for the line state found in that cycle.
C21_AclineEveryCycle == [][AclineCycle => AclineEffect]_vars

\* The read of the second cycle failed after the first found the battery:
\* the daemon runs on with the targets of the unknown line state.
C21_Witness ==
    /\ cycles = 2
    /\ pc = "loop"
    /\ exitcode = RUNNING
    /\ ~sys.acline.ok
    /\ g.acline = UNKNOWN
    /\ g.targets[UNKNOWN] # g.targets[BATTERY]
    /\ g.target = g.targets[UNKNOWN]

(***************************************************************************)
(* The read of kern.cp_times                                               *)
(***************************************************************************)

\* C22: a read of kern.cp_times that returns more entries than g.ncpu
\* (phantom cores, reported by the kernel as ENOMEM) does not end the
\* daemon, the entries in excess are ignored; every other failure of the
\* read ends it with ESYSCTL.
C22_PhantomCoresTolerated ==
    /\ (sys.phantom > 0 /\ errno \in {"0", "ENOMEM"}) => exitcode # ESYSCTL
    /\ (errno \notin {"0", "ENOMEM", "EPERM"}) =>
          (exitcode = ESYSCTL /\ (Leaving \/ pc = "exit"))

\* The first read of kern.cp_times on a machine with a phantom core has
\* ended the process.
C22_Witness ==
    /\ sys.phantom > 0
    /\ errno = "ENOMEM"
    /\ pc = "exit"
    /\ exitcode = ESYSCTL
    /\ cycles = 0

(***************************************************************************)
(* The frequency limits                                                    *)
(***************************************************************************)

\* The main loop of run_daemon() is running.
InLoop == pc \in {"loop", "sleep"}

\* C23: with configured limits that do not satisfy freq_min < freq_max
\* the process ends with a failure before the main loop runs, so that
\* freq_min < freq_max holds whenever the main loop is running, with or
\* without a freq_levels table.
C23_LimitsOrdered ==
    /\ (g.freq_min >= g.freq_max /\ pc # "init") =>
          /\ pc = "exit"
          /\ exitcode \notin {OK, RUNNING}
          /\ ~Done("loop")
          /\ cycles = 0
    /\ InLoop => g.freq_min < g.freq_max

\* The main loop has run a cycle with -m 800 -M 600 on a machine without
\* dev.cpu.0.freq_levels.
C23_Witness ==
    /\ g.freq_min >= g.freq_max
    /\ ~sys.levels.present
    /\ pc = "loop"
    /\ cycles >= 1
    /\ exitcode = RUNNING

(***************************************************************************)
(* The option parser                                                       *)
(***************************************************************************)
File == <<"f", "i", "l", "e">>

\* -v -i file, -vi file and -vifile
Spellings ==
    { <<Program, <<"-", "v">>, <<"-", "i">>, File>>,
      <<Program, <<"-", "v", "i">>, File>>,
      <<Program, <<"-", "v", "i", "f", "i", "l", "e">>>> }

\* The options repeated calls give for them, again and again.
Expected == <<"FLAG_VERBOSE", "FILE_IN", "OPT_DONE">>

\* C24: for the command lines -v -i file, -vi file and -vifile repeated
\* calls give the same results: the option of v, the option of i with
\* [1] = "file", then OPT_DONE (and the same again after that); the
\* argument of i never comes back as an option or as OPT_NOOPT.
C24_EquivalentSpellings ==
    (opt.argv \in Spellings) =>
       \A k \in 1 .. Len(opt.results) :
          /\ opt.results[k].option = Expected[((k - 1) % 3) + 1]
          /\ (opt.results[k].option = "FILE_IN") => (opt.results[k].first = File)
          /\ (opt.read.valid /\ opt.read.i = 1 /\ k = Len(opt.results)
                 /\ opt.results[k].option = "FILE_IN") => (opt.read.val = File)

\* -vifile was parsed up to OPT_DONE.
C24_Witness ==
    /\ opt.argv = <<Program, <<"-", "v", "i", "f", "i", "l", "e">>>>
    /\ Len(opt.results) = 3
    /\ opt.results[2].first = File
    /\ opt.results[3].option = "OPT_DONE"

\* C25: in every state repeated calls reach, and for every index i,
\* operator [](i) reads argv only at an index in [0, argc) and returns a
\* string of the command line, or the rest of one, or the empty string.
C25_IndexInRange ==
    /\ (opt.argp # NoArgp) =>
          (opt.argi \in 1 .. (Argc(opt) - 1)
              /\ opt.argp \in 1 .. Len(Arg(opt, opt.argi)))
    /\ \A i \in (-MaxIndex - MaxArgs - 2) .. (MaxIndex + MaxArgs + 2) :
          LET r == index(opt, i)
          IN  \/ r.at = -1 /\ Value(opt, i) = <<>>
              \/ /\ r.at \in 0 .. (Argc(opt) - 1)
                 /\ r.from \in 0 .. Len(Arg(opt, r.at))
                 /\ Value(opt, i) = From(Arg(opt, r.at), r.from)
    /\ opt.read.valid =>
          (opt.read.at = -1 \/ opt.read.at \in 0 .. (Argc(opt) - 1))

\* The last parameter -i lacks its argument and [1] was read, giving the
\* empty string.
C25_Witness ==
    /\ opt.argv = <<Program, <<"-", "v">>, <<"-", "i">>>>
    /\ Len(opt.results) = 2
    /\ opt.results[2].option = "FILE_IN"
    /\ opt.read.valid
    /\ opt.read.i = 1
    /\ opt.read.at = -1
    /\ opt.read.val = <<>>

(***************************************************************************)
(* libloadplay                                                             *)
(***************************************************************************)

\* A step of the emulator thread.
EmuStep == lp'.emu # lp.emu

\* What the steps of the emulator thread do about die and SIGINT: see C26.
EmuEffect ==
    /\ (lp.emu = "loop" /\ lp.die) => (lp'.emu = "check")
    /\ (lp.emu = "check" /\ lp.die) =>
          (lp'.emu = "ended" /\ lp'.raised = lp.raised)
    /\ (lp.emu = "check" /\ ~lp.die) =>
          (lp'.emu = "raise" /\ lp.frames = 0)
    /\ (lp'.raised # lp.raised) =>
          (lp.emu = "raise" /\ lp'.emu = "ended" /\ lp.frames = 0
              /\ lp.raised = 0 /\ lp'.raised = 1)
    /\ (lp'.emu = "frame") => (lp.emu = "scanf")
    /\ (lp'.emu = "scanf") => (lp.emu = "loop" /\ ~lp.die)

\* C26: an emulator thread that has read all load frames without having
\* been told to die raises SIGINT once and ends; once it finds die set at
\* the loop condition it runs no further frame and ends without a signal;
\* the join() of ~Main() returns, so that ~Main() completes.
C26_EmulatorEnds ==
    /\ [][EmuStep => EmuEffect]_vars
    /\ [](lp.raised <= 1)
    /\ [](lp.main = "gone" => lp.emu \in {"none", "ended"})
    /\ (lp.emu = "raise") ~> (lp.emu = "ended" /\ lp.raised = 1)
    /\ (lp.main = "join") ~> (lp.main = "gone")

\* All frames were replayed, SIGINT was raised once and ~Main() has
\* completed.
C26_Witness ==
    /\ lp.raised = 1
    /\ lp.frames = 0
    /\ lp.emu = "ended"
    /\ lp.main = "gone"
    /\ lp.sys_results = 0

\* C27: once fail() was called sys_results stays -1, and every sysctl()
\* of the hijacked process from then on returns -1.
C27_FailedStaysFailed ==
    /\ [][(lp.sys_results = -1) => (lp'.sys_results = -1)]_vars
    /\ []((lp.last.called /\ lp.last.failed) => (lp.last.ret = -1))

\* Main::Main() has failed and a sysctl() of the hijacked process was
\* answered by the system with success.
C27_Witness ==
    /\ lp.sys_results = -1
    /\ lp.sysctl_startup
    /\ lp.last.called
    /\ lp.last.failed
    /\ lp.last.via = "sys"
    /\ lp.last.ret = 0

(***************************************************************************)
(* The load ring buffer.                                                   *)
(***************************************************************************)
\* C28: after any sequence of sampling cycles the rolling sum of every
\* group equals the sum of all samples stored in its load ring buffer.
C28_RollingSum ==
    \A k \in RingGroups :
        rbuf.groups[k].loadsum = Sum(rbuf.groups[k].loads, rbuf.samples)

\* The buffer has wrapped, and the last cycle has evicted a sample of one
\* group while the other group evicted an empty slot.
C28_Witness ==
    /\ rbuf.wrapped
    /\ rbuf.samples > 1
    /\ rbuf.evicted[0] > 0
    /\ rbuf.evicted[1] = 0
    /\ rbuf.groups[0].loadsum > rbuf.groups[1].loadsum
    /\ rbuf.groups[1].loadsum > 0

(***************************************************************************)
(* The cp_times ring buffer.                                               *)
(***************************************************************************)
\* A sampling step, and one made by a cycle of the main loop.
SamplingStep == taken'.steps # taken.steps
PolicyCycle == pc = "sleep" /\ SamplingStep

\* The oldest snapshot the ring holds.
Oldest(stamp) ==
    CHOOSE a \in { stamp[i] : i \in DOMAIN stamp } :
        \A i \in DOMAIN stamp : a <= stamp[i]

SampleEffect ==
    /\ SamplingStep => (g'.sample = (g.sample + 1) % g.samples)
    /\ (~SamplingStep) => (g'.sample = g.sample)
    /\ PolicyCycle => /\ taken'.old = Oldest(taken'.stamp)
                      /\ taken'.old = taken'.steps - (g.samples - 1)
                      /\ taken'.old > 0

\* C29: the sample index lies in [0, samples) and advances by one modulo
\* samples per sampling step, and only then; in every cycle of the main
\* loop the snapshot used as cp_times_old is the oldest one stored, read
\* from the kernel samples - 1 sampling steps earlier, and never a slot
\* that is still zero-initialised.
C29_OldestSnapshot ==
    /\ [](g.sample \in 0 .. (g.samples - 1))
    /\ [][SampleEffect]_vars

\* Three samples, two cycles: the second cycle has used the snapshot of
\* the second step of reset_cp_times(), and the index has wrapped.
C29_Witness ==
    /\ pc = "loop" /\ cycles = 2
    /\ g.samples = 3
    /\ g.sample = 1
    /\ taken.steps = 4
    /\ taken.old = 2

(***************************************************************************)
(* The effective limits of a group.                                        *)
(***************************************************************************)
\* The lowest and the highest frequency of a freq_levels table.
Frequencies(freqs) == { freqs[i] : i \in DOMAIN freqs }
Lowest(freqs) ==
    CHOOSE f \in Frequencies(freqs) : \A x \in Frequencies(freqs) : f <= x
TableMax(freqs) ==
    CHOOSE f \in Frequencies(freqs) : \A x \in Frequencies(freqs) : f >= x

\* The limits of the controlling core c are those of the table cut to
\* the configured ones.
Intersected(c) ==
    /\ g.cores[c].min = Max(Lowest(sys.levels.freqs), g.freq_min)
    /\ g.cores[c].max = Min(TableMax(sys.levels.freqs), g.freq_max)

\* C30: the effective limits of every group satisfy min <= max and lie
\* within the configured limits [freq_min, freq_max]; with a freq_levels
\* table they are the table's lowest and highest frequency cut to the
\* configured limits.
C30_EffectiveBounds ==
    \A c \in DOMAIN g.cores :
        (g.cores[c].controller = c) =>
            /\ g.cores[c].min <= g.cores[c].max
            /\ g.freq_min <= g.cores[c].min
            /\ g.cores[c].max <= g.freq_max
            /\ (sys.levels.present /\ sys.levels.freqs # <<>>) =>
                  Intersected(c)

\* Without a freq_levels table and with -m 600 the main loop has set the
\* clock of a group below 600 MHz.
C30_Witness ==
    /\ ~sys.levels.present
    /\ g.freq_min = 600
    /\ pc = "loop" /\ cycles >= 1
    /\ g.cores[0].min = 0
    /\ obs[0].seen /\ obs[0].writes > 0
    /\ sys.freq[0] < g.freq_min

(***************************************************************************)
(* The option parser: termination and restart.                             *)
(***************************************************************************)
\* The calls made so far that did not return OPT_DONE come in runs; the
\* call numbers of the calls that returned OPT_DONE.
Dones == { k \in 1 .. Len(opt.results) : opt.results[k].option = "OPT_DONE" }

\* The most calls a command line can take before OPT_DONE: one per
\* character of a chain of short options, one per other argument.
RECURSIVE MostCalls(_, _)
MostCalls(argv, k) ==
    IF k > Len(argv) THEN 0
    ELSE (IF Len(argv[k]) > 2 THEN Len(argv[k]) - 1 ELSE 1)
            + MostCalls(argv, k + 1)

\* Call k + 1 is further along the command line than call k.
Advanced(k) ==
    LET a == opt.results[k]
        b == opt.results[k + 1]
    IN  \/ b.arg > a.arg
        \/ b.arg = a.arg /\ a.pos # NoArgp /\ b.pos > a.pos

\* An argument that makes operator ()() read past its end.
Short(arg) == Len(arg) < 2 /\ bmatch(arg, <<"-", "-">>)
HasShort(argv) == \E k \in 2 .. Len(argv) : Short(argv[k])

InstanceOf(name, pattern) ==
    /\ Len(name) = Len(pattern)
    /\ \E k \in 1 .. Len(pattern) : pattern[k] = "%d"
    /\ \A k \in 1 .. Len(pattern) :
          IF pattern[k] = "%d" THEN name[k] \in Numbers
          ELSE name[k] = pattern[k]

\* The pattern of the name is a simulated tunable.
Simulated(name) == \E pattern \in BaseNames : InstanceOf(name, pattern)

\* name was defined by the load record or is simulated from the start.
Defined(name) ==
    \/ name \in BaseNames
    \/ Simulated(name) /\ \E record \in Records :
          /\ \E k \in 1 .. Len(record) : record[k] = name
          /\ lp.mibs = addValues(BaseNames, record)

\* C32: after start-up has completed sysctlnametomib() fails with -1 and
\* ENOENT for a name whose pattern is simulated but whose instance the
\* load record has not defined, without asking the system; a defined name
\* gets its simulated MIB; only a name unknown even as a pattern is
\* forwarded to the system.
C32_UndefinedInstance ==
    (lp.lookup.called /\ ~lp.lookup.startup) =>
       LET name == lp.lookup.name
       IN  /\ (Simulated(name) /\ ~Defined(name)) =>
                 /\ lp.lookup.via = "sim"
                 /\ lp.lookup.ret = -1
                 /\ lp.lookup.errno = "ENOENT"
           /\ Defined(name) =>
                 (lp.lookup.via = "sim" /\ lp.lookup.errno = "0")
           /\ (lp.lookup.via = "sys") <=> (~Simulated(name) /\ ~Defined(name))

\* dev.cpu.7.temperature was asked for after a load record that defines
\* the clocks of two cores; the system would have known the name.
C32_Witness ==
    /\ lp.lookup.called /\ ~lp.lookup.startup
    /\ lp.lookup.name = <<"dev", "cpu", "7", "temperature">>
    /\ <<"dev", "cpu", "1", "freq">> \in lp.mibs
    /\ lp.lookup.ret = -1
    /\ lp.lookup.errno = "ENOENT"
    /\ lp.sys_results = 0

(***************************************************************************)
(* libloadplay: writes of an emulated clock frequency                      *)
(***************************************************************************)
\* The levels as a set, and one with the least distance to the value v.
LevelSet == { fctl.levels[k] : k \in DOMAIN fctl.levels }
Closest(l, v) ==
    \A x \in LevelSet :
        (IF l > v THEN l - v ELSE v - l) <= (IF x > v THEN x - v ELSE v - x)

\* A write has returned.
Wrote == fctl.pc = "idle" /\ fctl.wrote

\* C33 as claimed: after any write to a clock with a non-empty level list
\* the stored value is a level with the least distance to the written
\* value, and the callback has run once.
C33_AnyLevels ==
    (Wrote /\ fctl.levels # <<>>) =>
        /\ fctl.value \in LevelSet
        /\ Closest(fctl.value, fctl.written)
        /\ fctl.runs = 1

\* C33: after a write to a clock whose levels are all below 1000000 MHz
\* the stored value is a level with the least distance to the written
\* value; for every level list the on-set callback runs once per write,
\* is not entered by its own store, and the write returns.
C33_NearestLevel ==
    /\ [](  (Wrote /\ fctl.levels # <<>>
               /\ \A l \in LevelSet : l < 1000000) =>
                  /\ fctl.value \in LevelSet
                  /\ Closest(fctl.value, fctl.written))
    /\ [](Wrote => fctl.runs = 1)
    /\ [](fctl.runs <= 1 /\ fctl.depth <= 2)
    /\ [](fctl.pc = "callback" => fctl.depth = 1)
    /\ (fctl.pc = "onSet") ~> (fctl.pc = "idle")

\* 875 was written to a clock with the levels 1000, 750 and 500, and the
\* write has returned with 1000 stored.
C33_Witness ==
    /\ Wrote
    /\ fctl.levels = <<1000, 750, 500>>
    /\ fctl.written = 875
    /\ fctl.value = 1000
    /\ fctl.runs = 1 /\ ~fctl.called

(***************************************************************************)
(* libloadplay: the cycles of a frame                                      *)
(***************************************************************************)
\* A frame was committed by this step.
Committed == fr'.frames # fr.frames

FrameEffect ==
    \A c \in EmuCores :
       /\ Sum(fr'.cp_times[c], CPUSTATES) - Sum(fr.cp_times[c], CPUSTATES)
             = fr.cores[c].runFreq * fr'.duration
       /\ fr'.cp_times[c][CP_IDLE] - fr.cp_times[c][CP_IDLE]
             = fr.cores[c].runFreq * fr'.duration
                 - Sum(fr'.last[c].run, CP_IDLE)

\* C34: in every frame and for every core the cycles added to the five
\* counters of the core sum to runFreq * duration, idle getting what the
\* other states leave; no counter of the emulated kern.cp_times ever
\* decreases.
C34_FrameCycles ==
    /\ [][Committed => FrameEffect]_vars
    /\ [][\A c \in EmuCores : \A st \in States :
             fr'.cp_times[c][st] >= fr.cp_times[c][st]]_vars

\* Two frames were replayed; in the second core 0 ran at 500 MHz with
\* more work than cycles, so that idle got nothing, while core 1 had
\* cycles left for idle.
C34_Witness ==
    /\ fr.frames = 2
    /\ fr.cores[0].runFreq = 500
    /\ fr.last[0].available > 0
    /\ fr.last[0].run[CP_IDLE] = 0
    /\ fr.last[1].run[CP_IDLE] > 0
    /\ fr.last[1].run[CP_IDLE] < fr.last[1].available
    /\ fr.cp_times[0][CP_IDLE] > 0

\* The place of a state in the order of priority.
Rank(st) == CHOOSE k \in 1 .. 4 : <<CP_INTR, CP_SYS, CP_USER, CP_NICE>>[k] = st

\* C35: in every frame, for every core and every state but idle, the
\* recorded cycles plus the carry of the frame before equal the cycles
\* executed plus the carry into the next frame; a state gets cycles only
\* if every state of higher priority (interrupt, system, user, nice) was
\* served in full.
C35_CarryBalance ==
    \A c \in EmuCores : \A st \in States \ {CP_IDLE} :
       LET l == fr.last[c]
       IN  /\ l.rec[st] + l.carryIn[st] = l.run[st] + l.carryCycles[st]
           /\ l.carryCycles[st] = fr.cores[c].carryCycles[st]
           /\ (l.run[st] > 0) =>
                 \A hi \in States \ {CP_IDLE} :
                    (Rank(hi) < Rank(st)) =>
                       (l.carryCycles[hi] = 0 /\ l.run[hi] = l.demand[hi])

\* In the second frame core 0 has served its interrupts and the carried
\* system cycles in full, a part of the user cycles, and has carried the
\* rest of them on.
C35_Witness ==
    /\ fr.frames = 2
    /\ fr.last[0].carryIn[CP_SYS] > 0
    /\ fr.last[0].run[CP_SYS] = fr.last[0].demand[CP_SYS]
    /\ fr.last[0].run[CP_INTR] > 0
    /\ fr.last[0].run[CP_USER] > 0
    /\ fr.last[0].carryCycles[CP_USER] > 0
    /\ fr.last[0].run[CP_NICE] = 0
    /\ fr.last[0].carryCycles[CP_NICE] > 0

(***************************************************************************)
(* The threads of a hijacked process, checked against SpecSysctls.         *)
(***************************************************************************)
\* The read returned a complete value the store held during the read.
Whole(r) == r.mib # "" => r.buf \in r.seen

\* Every core of the tick array has been advanced by as many frames.
Level(buf) == \A i, j \in DOMAIN buf : buf[i] = buf[j]

\* C36: a read of the emulated kern.cp_times or of an emulated clock that
\* runs while the other thread commits a value returns the complete value
\* before the commit or the complete value after it; the host never sees a
\* tick array in which only some cores have been advanced.
C36_AtomicValues ==
    /\ \A t \in {Host, Emu} : Whole(mtx.read[t])
    /\ mtx.read[Host].mib = "cp_times" => Level(mtx.read[Host].buf)

\* The host has read the ticks while the emulator committed a frame, and
\* the emulator has read a clock the host has set.
C36_Witness ==
    /\ mtx.read[Host].mib = "cp_times"
    /\ Cardinality(mtx.read[Host].seen) = 2
    /\ mtx.read[Host].buf = mtx.committed["cp_times"]
    /\ mtx.read[Emu].mib = "freq"
    /\ mtx.read[Emu].buf = <<SimLevels[1]>>

\* The places where a thread asks for Sysctls::mtx.
TableRequests == {"add_lock", "base_lock", "inherit_lock", "index_lock",
                  "mib_lock", "basemib_lock", "features_lock"}

\* A thread asks for the table mutex it holds.
SelfLock ==
    \E t \in {Host, Emu} : mtx.pc[t] \in TableRequests /\ mtx.table = t

\* A thread asks for the table mutex while it holds a value mutex.
Inverted ==
    \E t \in {Host, Emu}, v \in Values :
        mtx.pc[t] \in TableRequests /\ mtx.lock[v].owner = t

\* The host is inside Main::Main() or inside an intercepted call.
HostInside == mtx.pc[Host] # "idle"

\* The emulator is inside a step.
EmuInside == mtx.pc[Emu] \notin {"unborn", "frame", "exit"}

\* C37: no interleaving of the intercepted calls of the host with the
\* emulator thread deadlocks: no thread asks for the table mutex while it
\* holds it or holds a value mutex, and every intercepted call and every
\* step of the emulator returns.
C37_NoDeadlock ==
    /\ [](~SelfLock /\ ~Inverted)
    /\ HostInside ~> ~HostInside
    /\ EmuInside ~> ~EmuInside

\* The emulator waits for the mutex of the clock, which the host holds
\* twice while it sets the clock, and no thread holds the table mutex.
C37_Witness ==
    /\ mtx.pc[Emu] = "freq_get"
    /\ mtx.pc[Host] = "on_set"
    /\ mtx.lock["freq"].owner = Host
    /\ mtx.lock["freq"].depth = 2
    /\ mtx.table = Free

(***************************************************************************)
(* The line state as an index, checked against SpecAcline.                 *)
(***************************************************************************)
\* C38: in every cycle the AC line state that indexes the target tables is
\* BATTERY, ONLINE or UNKNOWN, whatever hw.acpi.acline returns; the tables
\* are never indexed out of range.
C38_LineStateInRange ==
    /\ g.acline \in {BATTERY, ONLINE, UNKNOWN}
    /\ g.acline \in DOMAIN g.targets

\* The tunable has returned 3, the loop goes on with a target load and a
\* fixed clock that are not those of any line state.
C38_Witness ==
    /\ pc = "loop"
    /\ cycles > 0
    /\ sys.acline = [ok |-> TRUE, value |-> 3]
    /\ g.acline = 3
    /\ \A line \in DOMAIN g.targets :
           <<g.target, g.target_freq>> # <<g.targets[line], g.target_freqs[line]>>

=============================================================================
